---- MODULE Spec2Model ----
(***************************************************************************)
(* A model of the Simon voice assistant (Simonf8/CJ): the command          *)
(* registry, the conversation memory, the skill dispatcher, the            *)
(* Brain.process / _execute_command pipeline and the threads of main.py.   *)
(*                                                                         *)
(* A text is a sequence: of characters in the registry, of words in the    *)
(* skills and the pipeline.  An optional value (a result that may be       *)
(* None) is NONE or Some(x), so that None differs from the empty list and  *)
(* from the empty string.                                                  *)
(***************************************************************************)
EXTENDS Integers, Sequences, FiniteSets, TLC

\* -------------------------------------------------------------------------
\* Bounds of the model
\* -------------------------------------------------------------------------
\* The registry: the characters of a stored name and of a phrase, the names
\* of a stored mapping
MaxNameLen == 1

MaxPhraseLen == 2

MaxCommands == 2

\* Memory: the largest configured max_messages, and the number of stored
\* turns beyond which the model appends no more
MaxConfigured == 2

MaxStored == 3

\* The pipeline: the words of a command
MaxCommandWords == 2

\* The pieces of a reply given to _parse_response
MaxReplyPieces == 4

\* The calls of add_command and remove_command in a behaviour
MaxEdits == 2

\* The words of a command given to _parse_duration
MaxDurationWords == 4

\* The utterances given to the knowledge skill in a row
MaxKnowledgeCommands == 2

\* The timers set in a row
MaxTimers == 2

\* The calls of Listener.start and Listener.stop in a row
MaxListenerCalls == 6

\* The length of the short histories a request is built on, and how far
\* below the configured maximum the long ones begin
MaxHistory == 2

\* Brain.__init__: Memory(max_messages=30)
BrainMaxMessages == 30

\* -------------------------------------------------------------------------
\* Python values and str methods
\* -------------------------------------------------------------------------
NONE == <<>>

Some(x) == <<x>>

ValueOf(opt) == opt[1]

\* A Python value of the kinds the assistant passes around: a str (its text
\* a sequence), None, or a number
PyStr(s) == [type |-> "str", text |-> s]

PyNone == [type |-> "NoneType", text |-> <<>>]

PyInt(s) == [type |-> "int", text |-> s]

\* Python's truth value of such a value: None and "" are false (the numbers
\* of the model are not 0)
Truthy(v) == v.type = "int" \/ (v.type \in {"str", "list"} /\ v.text # <<>>)

\* The characters of the registry's names and phrases: a lower-case letter,
\* its upper-case form and the blank.
Chars == {"a", "A", " "}

StringsUpTo(n) == UNION {[1..k -> Chars] : k \in 0..n}

\* str.lower() on one character
LowerChar(c) == IF c = "A" THEN "a" ELSE c

\* str.lower()
Lower(s) == [i \in 1..Len(s) |-> LowerChar(s[i])]

IsSpace(c) == c = " "

RECURSIVE LStrip(_)
LStrip(s) == IF s # <<>> /\ IsSpace(Head(s)) THEN LStrip(Tail(s)) ELSE s

RECURSIVE RStrip(_)
RStrip(s) ==
    IF s # <<>> /\ IsSpace(s[Len(s)]) THEN RStrip(SubSeq(s, 1, Len(s) - 1)) ELSE s

\* str.strip()
Strip(s) == RStrip(LStrip(s))

\* Python's  sub in s  for strings: sub is a contiguous part of s
Contains(sub, s) ==
    \E i \in 0..(Len(s) - Len(sub)) : SubSeq(s, i + 1, i + Len(sub)) = sub

\* -------------------------------------------------------------------------
\* A dict that keeps insertion order: a sequence of [key, val] entries with
\* distinct keys
\* -------------------------------------------------------------------------
DictKeys(d) == {d[i].key : i \in 1..Len(d)}

DictHas(d, k) == k \in DictKeys(d)

DictGet(d, k) == d[CHOOSE i \in 1..Len(d) : d[i].key = k].val

\* d[k] = v: an existing key keeps its place, a new key goes last
DictSet(d, k, v) ==
    IF DictHas(d, k)
    THEN [i \in 1..Len(d) |-> IF d[i].key = k THEN [key |-> k, val |-> v] ELSE d[i]]
    ELSE Append(d, [key |-> k, val |-> v])

\* del d[k]
DictDel(d, k) == SelectSeq(d, LAMBDA e : e.key # k)

\* -------------------------------------------------------------------------
\* The state of the program
\* -------------------------------------------------------------------------
VARIABLES
    commands,        \* CustomCommands.commands: name (key) -> action list (val)
    disk_commands,   \* config/commands.json: NONE (no file), Some(mapping), or
                     \* Garbled (a file that is no JSON)
    reg_call,        \* the last registry call: [op, phrase]
    reg_ret,         \* what that call returned: [bool] a truth value, [opt] an optional list
    reg_writes,      \* the calls of _save_commands made by that call: what each one
                     \* was given to write, and how it ended
    reg_args         \* the arguments of the last add_command or remove_command,
                     \* and the number of such calls so far

regVars == <<commands, disk_commands, reg_call, reg_ret, reg_writes, reg_args>>

VARIABLES
    messages,        \* Memory.messages: a sequence of [role, content]
    max_messages,    \* Memory.max_messages
    mem_call         \* the last Memory call: [op, role, content]

memVars == <<messages, max_messages, mem_call>>

VARIABLES
    facts,           \* KnowledgeSkill.facts: key -> value
    disk_facts,      \* data/knowledge.json
    active_timers    \* TimerSkill.active_timers: [id, duration, message, active], with
                     \* the thread of the timer (sleeping, woken, done) and the number
                     \* of calls of _on_timer_complete for it

skillVars == <<facts, disk_facts, active_timers>>

VARIABLES
    pc,              \* where the command thread is: idle, brain, execute, speak,
                     \* except, finally, done
    entry,           \* its target: "_process_with_command" or "_process_command"
    current_command,         \* the command given to _execute_command
    current_action,          \* the Action Brain.process returned
    consulted,       \* what Brain.process went through: registry, skills, llm
    skill_run,       \* the skills whose execute ran for this command, in order
    brain_raised,    \* Brain.process raised
    llm_result,      \* how self.client.chat ended for this command: "none" (not
                     \* called), "ok", or the exception it raised
    llm_request,     \* the messages given to self.client.chat for this command
    sub_index,       \* the sub-action of a custom action the loop is at
    exec_log,        \* the calls of Executor.execute for this command, in order
    spoken,          \* the arguments of speaker.speak for this command, in order
    unhandled        \* an exception left the command thread

cmdVars ==
    <<pc, entry, current_command, current_action, consulted, skill_run, brain_raised,
      llm_result, llm_request, sub_index, exec_log, spoken, unhandled>>

VARIABLES
    processing,          \* self._processing
    enabled,             \* self._enabled
    in_conversation,     \* self._in_conversation
    response_age,        \* time.time() - self._last_response_time, in seconds,
                         \* counted up to CONVERSATION_TIMEOUT
    stop_wake_listener,  \* self._stop_wake_listener is set
    mic_lock,            \* who holds self._mic_lock
    wake_pc,             \* where _wake_word_listener is
    hotkey_pc,           \* where the hotkey callback is
    threads              \* the command threads: target and position

mainVars ==
    <<processing, enabled, in_conversation, response_age, stop_wake_listener,
      mic_lock, wake_pc, hotkey_pc, threads>>

VARIABLES
    parse_call,      \* the content given to Brain._parse_response
    parse_ret,       \* what it returned, or that it raised
    exec_call,       \* the arguments of a call of Executor.execute
    exec_ret,        \* the handler it invoked and how the call ended
    dur_call,        \* the command given to TimerSkill._parse_duration
    dur_ret          \* what it returned

VARIABLES
    kn_log           \* the commands given to KnowledgeSkill.execute, in order:
                     \* [command, response, before] with the facts before the call

VARIABLES
    lis_running,     \* Listener._running
    lis_thread,      \* Listener._thread: NONE or the loop thread it refers to
    lis_loops,       \* the threads made for _listen_loop: where each one is
    lis_calls,       \* the number of calls of start and stop so far
    lis_caller       \* where the caller of start and stop is: idle, or joining
                     \* inside stop

lisVars == <<lis_running, lis_thread, lis_loops, lis_calls, lis_caller>>

fnVars == <<parse_call, parse_ret, exec_call, exec_ret, dur_call, dur_ret, kn_log, lisVars>>

\* What the threads of Simon leave alone
restVars == <<regVars, memVars, skillVars, cmdVars, fnVars>>

vars == <<regVars, memVars, skillVars, cmdVars, mainVars, fnVars>>

\* -------------------------------------------------------------------------
\* CustomCommands (src/assistant/commands.py)
\* -------------------------------------------------------------------------
\* The action list of the i-th name of a stored mapping: i - 1 sub-actions,
\* so that the list tells which entry a lookup returned
RegActionList(i) ==
    [k \in 1..(i - 1) |-> [action |-> PyStr(<<"open_app">>), target |-> PyStr(<<"chrome">>)]]

NoRet == [bool |-> FALSE, opt |-> NONE]

BoolRet(b) == [bool |-> b, opt |-> NONE]

OptRet(o) == [bool |-> FALSE, opt |-> o]

RegNames == StringsUpTo(MaxNameLen)

Phrases == StringsUpTo(MaxPhraseLen)

\* The loop of get_command over commands.items(), from entry i on
RECURSIVE PartialMatch(_, _, _)
PartialMatch(d, phrase_lower, i) ==
    IF i > Len(d) THEN NONE
    ELSE IF Contains(d[i].key, phrase_lower) THEN Some(d[i].val)
    ELSE PartialMatch(d, phrase_lower, i + 1)

\* A lookup that leaves out the test for the exact name
get_command_partial_only(d, phrase) == PartialMatch(d, Strip(Lower(phrase)), 1)

\* CustomCommands.get_command
get_command(d, phrase) ==
    LET phrase_lower == Strip(Lower(phrase)) IN
    IF DictHas(d, phrase_lower) THEN Some(DictGet(d, phrase_lower))
    ELSE PartialMatch(d, phrase_lower, 1)

\* A file whose content is no JSON: empty, or the beginning of a JSON text
Garbled == <<<<>>, <<>>>>

\* CustomCommands._load_commands: the mapping of the file, or {} without a
\* file json.load can read
LoadCommands(file) == IF Len(file) = 1 THEN ValueOf(file) ELSE <<>>

NoCall == [op |-> "none", phrase |-> <<>>]

NoArgs ==
    [name |-> PyNone, actions |-> <<>>, n |-> 0, commands_before |-> <<>>,
     disk_before |-> NONE, ended |-> "none"]

\* What commands.json may hold at start-up: no readable file, or a mapping
\* of at most MaxCommands names (a JSON object keeps its keys in file order)
RegKeys ==
    { n \in UNION {[1..k -> RegNames] : k \in 0..MaxCommands} :
        \A i, j \in 1..Len(n) : i # j => n[i] # n[j] }

Registries ==
    { [i \in 1..Len(n) |-> [key |-> n[i], val |-> RegActionList(i)]] : n \in RegKeys }

StoredFiles == {NONE} \cup {Some(d) : d \in Registries}

\* CustomCommands.__init__: the mapping is loaded from the file
RegInit ==
    /\ disk_commands \in StoredFiles
    /\ commands = LoadCommands(disk_commands)
    /\ reg_call = NoCall
    /\ reg_writes = <<>>
    /\ reg_args = NoArgs
    /\ reg_ret = NoRet

\* A call of get_command(phrase)
GetCommand ==
    \E phrase \in Phrases :
        /\ reg_call' = [op |-> "get", phrase |-> phrase]
        /\ reg_ret' = OptRet(get_command(commands, phrase))
        /\ UNCHANGED <<commands, disk_commands, reg_writes, reg_args, memVars, skillVars, cmdVars, mainVars, fnVars>>

\* ---- add_command, remove_command
\* How a call of _save_commands ends: the file is written ("ok"); makedirs
\* or open raises and the file is as it was ("not opened"); json.dump or the
\* closing of the file raises after open(path, 'w') has emptied the file
\* ("cut short")
WriteOutcomes == {"ok", "not opened", "cut short"}

\* CustomCommands._save_commands: the file it leaves, and whether it raised
SaveCommands(d, disk, outcome) ==
    [disk |-> CASE outcome = "ok" -> Some(d)
                [] outcome = "not opened" -> disk
                [] outcome = "cut short" -> Garbled,
     raised |-> outcome # "ok"]

\* What a call leaves: the mapping, the file, how it ended ("True", "False",
\* "raise") and the writes it made
EditResult(d, disk, ended, writes) ==
    [commands |-> d, disk |-> disk, ended |-> ended, writes |-> writes]

\* add_command without its try/except
add_command_unguarded(d, disk, name, actions, outcome) ==
    IF name.type # "str" THEN EditResult(d, disk, "raise", <<>>)
    ELSE LET d2 == DictSet(d, Lower(name.text), actions)
             w == SaveCommands(d2, disk, outcome)
         IN  EditResult(d2, w.disk, IF w.raised THEN "raise" ELSE "True",
                        <<[given |-> d2, outcome |-> outcome]>>)

\* CustomCommands.add_command(name, actions); name.lower() of a name that is
\* no str raises inside the try
add_command(d, disk, name, actions, outcome) ==
    IF name.type # "str" THEN EditResult(d, disk, "False", <<>>)
    ELSE LET d2 == DictSet(d, Lower(name.text), actions)
             w == SaveCommands(d2, disk, outcome)
         IN  EditResult(d2, w.disk, IF w.raised THEN "False" ELSE "True",
                        <<[given |-> d2, outcome |-> outcome]>>)

\* CustomCommands.remove_command(name)
remove_command(d, disk, name, outcome) ==
    IF name.type # "str" THEN EditResult(d, disk, "False", <<>>)
    ELSE IF DictHas(d, Lower(name.text))
    THEN LET d2 == DictDel(d, Lower(name.text))
             w == SaveCommands(d2, disk, outcome)
         IN  EditResult(d2, w.disk, IF w.raised THEN "False" ELSE "True",
                        <<[given |-> d2, outcome |-> outcome]>>)
    ELSE EditResult(d, disk, "False", <<>>)

\* The names and action lists given to add_command and remove_command
EditNames == {PyStr(<<"a">>), PyStr(<<"A">>), PyStr(<<"a", " ">>), PyNone}

EditActions == {RegActionList(1), RegActionList(2)}

\* The files the registry of these calls starts from
EditFiles ==
    { NONE,
      Some(<<[key |-> <<"a">>, val |-> RegActionList(1)]>>),
      Some(<<[key |-> <<"A">>, val |-> RegActionList(1)],
             [key |-> <<"a">>, val |-> RegActionList(2)]>>) }

EditInit ==
    /\ disk_commands \in EditFiles
    /\ commands = LoadCommands(disk_commands)
    /\ reg_call = NoCall
    /\ reg_writes = <<>>
    /\ reg_args = NoArgs
    /\ reg_ret = NoRet

TextOf(name) == IF name.type = "str" THEN name.text ELSE <<>>

\* The arguments and the outcome of a call, as reg_args keeps them
EditArgs(name, actions, r) ==
    [name |-> name, actions |-> actions, n |-> reg_args.n + 1,
     commands_before |-> commands, disk_before |-> disk_commands, ended |-> r.ended]

\* A call of add_command(name, actions)
AddCommand ==
    /\ reg_args.n < MaxEdits
    /\ \E name \in EditNames, actions \in EditActions, outcome \in WriteOutcomes :
        LET r == add_command(commands, disk_commands, name, actions, outcome)
        IN  /\ commands' = r.commands
            /\ disk_commands' = r.disk
            /\ reg_call' = [op |-> "add", phrase |-> TextOf(name)]
            /\ reg_ret' = BoolRet(r.ended = "True")
            /\ reg_writes' = r.writes
            /\ reg_args' = EditArgs(name, actions, r)
    /\ UNCHANGED <<memVars, skillVars, cmdVars, mainVars, fnVars>>

\* A call of remove_command(name)
RemoveCommand ==
    /\ reg_args.n < MaxEdits
    /\ \E name \in EditNames, outcome \in WriteOutcomes :
        LET r == remove_command(commands, disk_commands, name, outcome)
        IN  /\ commands' = r.commands
            /\ disk_commands' = r.disk
            /\ reg_call' = [op |-> "remove", phrase |-> TextOf(name)]
            /\ reg_ret' = BoolRet(r.ended = "True")
            /\ reg_writes' = r.writes
            /\ reg_args' = EditArgs(name, <<>>, r)
    /\ UNCHANGED <<memVars, skillVars, cmdVars, mainVars, fnVars>>

\* -------------------------------------------------------------------------
\* Memory (src/assistant/memory.py).  A Message's timestamp is written and
\* never read, and is left out.
\* -------------------------------------------------------------------------
Max(a, b) == IF a >= b THEN a ELSE b

Min(a, b) == IF a <= b THEN a ELSE b

\* Python's  s[start:]  for a list, start of either sign
SliceFrom(s, start) ==
    LET k == IF start < 0 THEN Max(Len(s) + start, 0) ELSE Min(start, Len(s))
    IN  SubSeq(s, k + 1, Len(s))

Contents == {PyStr(<<"hi">>), PyStr(<<"ok">>)}

NoMemCall == [op |-> "none", role |-> "", content |-> PyNone]

\* Memory._add_message
add_message(msgs, maxm, role, content) ==
    LET appended == Append(msgs, [role |-> role, content |-> content])
    IN  IF Len(appended) > maxm THEN SliceFrom(appended, -maxm) ELSE appended

\* Memory.__init__(max_messages)
MemInit ==
    /\ max_messages \in 0..MaxConfigured
    /\ messages = <<>>
    /\ mem_call = NoMemCall

\* Memory.add_user_message(content)
AddUserMessage ==
    \E content \in Contents :
        /\ Len(messages) < MaxStored
        /\ messages' = add_message(messages, max_messages, "user", content)
        /\ mem_call' = [op |-> "add", role |-> "user", content |-> content]
        /\ UNCHANGED <<max_messages, regVars, skillVars, cmdVars, mainVars, fnVars>>

\* Memory.add_assistant_message(content)
AddAssistantMessage ==
    \E content \in Contents :
        /\ Len(messages) < MaxStored
        /\ messages' = add_message(messages, max_messages, "assistant", content)
        /\ mem_call' = [op |-> "add", role |-> "assistant", content |-> content]
        /\ UNCHANGED <<max_messages, regVars, skillVars, cmdVars, mainVars, fnVars>>

\* Memory.clear
ClearMemory ==
    /\ messages' = <<>>
    /\ mem_call' = [op |-> "clear", role |-> "", content |-> PyNone]
    /\ UNCHANGED <<max_messages, regVars, skillVars, cmdVars, mainVars, fnVars>>

MemNext == AddUserMessage \/ AddAssistantMessage \/ ClearMemory

\* -------------------------------------------------------------------------
\* Skills (src/skills).  An utterance is a sequence of words, read as the
\* words joined by single blanks; no word of the model's vocabulary is part
\* of another, so that Python's substring test on the text is Contains on
\* the words.  The fixed parts of a response are single words of the model.
\* -------------------------------------------------------------------------
\* An Action: kind, target and response are Python values; sub is the list
\* of sub-actions a custom action carries as its target
MakeAction(kind, target, sub, response) ==
    [action |-> kind, target |-> target, sub |-> sub, response |-> response]

Speak(text) == MakeAction(PyStr(<<"speak">>), PyNone, <<>>, PyStr(text))

NoAction == MakeAction(PyNone, PyNone, <<>>, PyNone)

\* pat occurs in s at position i
StartsAt(pat, s, i) ==
    /\ i >= 1
    /\ i + Len(pat) - 1 <= Len(s)
    /\ SubSeq(s, i, i + Len(pat) - 1) = pat

\* pat + " " occurs in the text of s at word i: pat is there and a word follows
FollowedAt(pat, s, i) == StartsAt(pat, s, i) /\ i + Len(pat) <= Len(s)

\* pat + " " in s
ContainsFollowed(pat, s) == \E i \in 1..Len(s) : FollowedAt(pat, s, i)

\* s.replace(pat + " ", "")
RECURSIVE RemoveFollowed(_, _)
RemoveFollowed(s, pat) ==
    IF s = <<>> THEN <<>>
    ELSE IF FollowedAt(pat, s, 1)
         THEN RemoveFollowed(SubSeq(s, Len(pat) + 1, Len(s)), pat)
         ELSE <<Head(s)>> \o RemoveFollowed(Tail(s), pat)

Least(S) == CHOOSE x \in S : \A y \in S : x <= y

\* s.split(pat + " ")[1]: the words between the first occurrence and the next
SplitSecond(s, pat) ==
    LET i == Least({k \in 1..Len(s) : FollowedAt(pat, s, k)})
        rest == SubSeq(s, i + Len(pat), Len(s))
        nexts == {k \in 1..Len(rest) : FollowedAt(pat, rest, k)}
    IN  IF nexts = {} THEN rest ELSE SubSeq(rest, 1, Least(nexts) - 1)

\* s.split(pat + " ", 1)[1]: everything after the first occurrence
RestAfter(s, pat) ==
    LET i == Least({k \in 1..Len(s) : FollowedAt(pat, s, k)})
    IN  SubSeq(s, i + Len(pat), Len(s))

\* any(trigger in command for trigger in triggers)
AnyTrigger(triggers, command) == \E t \in triggers : Contains(t, command)

\* What a skill's execute gives: it raised, or it returned an Action; and
\* the state it left
Outcome(raised, action, f, df, timers) ==
    [raised |-> raised, action |-> action, facts |-> f, disk_facts |-> df,
     active_timers |-> timers]

\* ---- WeatherSkill (src/skills/weather.py)
WeatherTerms ==
    { <<"weather">>, <<"forecast">>, <<"temperature", "outside">>,
      <<"how", "hot">>, <<"how", "cold">> }

WeatherCanHandle(command) == AnyTrigger(WeatherTerms, command)

\* WeatherSkill.execute; net_ok: the request to wttr.in succeeded
WeatherExecute(command, net_ok) ==
    IF net_ok
    THEN Speak(<<"In {city}, it's currently {temp}, {desc}, with {humidity}% humidity.">>)
    ELSE Speak(<<"Sorry, I couldn't get the weather: {e}">>)

\* ---- TimerSkill (src/skills/timer.py)
TimerTriggers ==
    { <<"timer">>, <<"remind">>, <<"reminder">>, <<"alarm">>, <<"wake", "me">>,
      <<"minutes">>, <<"seconds">>, <<"hours">> }

TimerCanHandle(command) == AnyTrigger(TimerTriggers, command)

\* The number words of the vocabulary and int() of them
NumberWords == {"1", "5", "30"}

IntOf(w) ==
    CASE w = "1" -> 1
      [] w = "5" -> 5
      [] w = "30" -> 30
      [] OTHER -> 0

\* str() of the small numbers a response prints
StrOfInt(n) ==
    IF n \in 1..12
    THEN <<"1", "2", "3", "4", "5", "6", "7", "8", "9", "10", "11", "12">>[n]
    ELSE "{n}"

\* The patterns of _parse_duration, in order: the words of the vocabulary
\* that the unit's regular expression matches the start of, and the seconds
\* of one unit
DurationPatterns ==
    << [unit |-> {"hour", "hours"}, seconds |-> 3600],
       [unit |-> {"minute", "minutes"}, seconds |-> 60],
       [unit |-> {"second", "seconds"}, seconds |-> 1],
       [unit |-> {"min", "mins", "minute", "minutes"}, seconds |-> 60],
       [unit |-> {"sec", "secs", "second", "seconds"}, seconds |-> 1] >>

\* re.search of one pattern: the first number followed by the unit, or 0
PatternSeconds(command, pat) ==
    LET hits == {i \in 1..(Len(command) - 1) :
                    command[i] \in NumberWords /\ command[i + 1] \in pat.unit}
    IN  IF hits = {} THEN 0 ELSE IntOf(command[Least(hits)]) * pat.seconds

RECURSIVE SumPatterns(_, _)
SumPatterns(command, i) ==
    IF i > Len(DurationPatterns) THEN 0
    ELSE PatternSeconds(command, DurationPatterns[i]) + SumPatterns(command, i + 1)

\* TimerSkill._parse_duration
parse_duration(command) ==
    LET total == SumPatterns(Lower(command), 1)
    IN  IF total > 0 THEN Some(total) ELSE NONE

\* TimerSkill._extract_message
extract_message(command) ==
    LET c == Lower(command) IN
    IF ContainsFollowed(<<"to">>, c) THEN RestAfter(c, <<"to">>)
    ELSE IF ContainsFollowed(<<"that">>, c) THEN RestAfter(c, <<"that">>)
    ELSE IF ContainsFollowed(<<"about">>, c) THEN RestAfter(c, <<"about">>)
    ELSE <<"Timer complete!">>

\* The time_str of TimerSkill.execute
TimeStr(duration) ==
    IF duration < 60 THEN <<StrOfInt(duration), "seconds">>
    ELSE IF duration < 3600
         THEN <<StrOfInt(duration \div 60),
                IF duration \div 60 > 1 THEN "minutes" ELSE "minute">>
         ELSE <<StrOfInt(duration \div 3600),
                IF duration \div 3600 > 1 THEN "hours" ELSE "hour">>

\* TimerSkill.execute with _start_timer
TimerExecute(command, f, df, timers) ==
    LET duration == parse_duration(command) IN
    IF duration = NONE
    THEN Outcome(FALSE,
                 Speak(<<"Sorry, I couldn't understand the duration. Try 'set a timer for 5 minutes'.">>),
                 f, df, timers)
    ELSE Outcome(FALSE,
                 Speak(<<"Timer set for">> \o TimeStr(ValueOf(duration))),
                 f, df,
                 Append(timers, [id |-> Len(timers), duration |-> ValueOf(duration),
                                 message |-> extract_message(command), active |-> TRUE,
                                 thread |-> "sleeping", fired |-> 0]))

\* ---- KnowledgeSkill (src/skills/knowledge.py)
KnowledgeTriggers ==
    { <<"remember">>, <<"forget">>, <<"what", "is", "my">>, <<"what's", "my">>,
      <<"do", "you", "know", "my">>, <<"recall">> }

KnowledgeCanHandle(command) == AnyTrigger(KnowledgeTriggers, command)

\* KnowledgeSkill._save: the facts go to the file, or the write raises and
\* the file is as before
SaveFacts(f, df, save_ok) == IF save_ok THEN f ELSE df

\* The places of " is " in text: an "is" with a word on either side
InteriorIs(text) == {i \in 2..(Len(text) - 1) : text[i] = "is"}

\* KnowledgeSkill._remember
Remember(command, f, df, timers, save_ok) ==
    LET text == RemoveFollowed(RemoveFollowed(Lower(command), <<"remember", "that">>),
                               <<"remember">>)
    IN  IF InteriorIs(text) # {}
        THEN LET i == Least(InteriorIs(text))
                 key == RemoveFollowed(SubSeq(text, 1, i - 1), <<"my">>)
                 value == SubSeq(text, i + 1, Len(text))
                 f2 == DictSet(f, key, value)
             IN  Outcome(~save_ok,
                         IF save_ok
                         THEN Speak(<<"Got it! I'll remember that your">> \o key
                                    \o <<"is">> \o value)
                         ELSE NoAction,
                         f2, SaveFacts(f2, df, save_ok), timers)
        ELSE Outcome(FALSE, Speak(<<"Try saying 'remember my favorite color is blue'.">>),
                     f, df, timers)

\* The loop of _forget and _recall: the first key that is part of the text
\* or has the text as a part, from entry i on; 0 when there is none
RECURSIVE FirstMatchingFact(_, _, _)
FirstMatchingFact(f, text, i) ==
    IF i > Len(f) THEN 0
    ELSE IF Contains(f[i].key, text) \/ Contains(text, f[i].key) THEN i
    ELSE FirstMatchingFact(f, text, i + 1)

\* KnowledgeSkill._forget
Forget(command, f, df, timers, save_ok) ==
    LET c == RemoveFollowed(RemoveFollowed(Lower(command), <<"forget", "my">>), <<"forget">>)
        i == FirstMatchingFact(f, c, 1)
    IN  IF i # 0
        THEN LET f2 == DictDel(f, f[i].key)
             IN  Outcome(~save_ok,
                         IF save_ok
                         THEN Speak(<<"Done, I've forgotten your">> \o f[i].key)
                         ELSE NoAction,
                         f2, SaveFacts(f2, df, save_ok), timers)
        ELSE Outcome(FALSE, Speak(<<"I don't have that information stored.">>), f, df, timers)

\* The query of _recall: the text after the first pattern that is in the
\* command
RecallQuery(c) ==
    IF ContainsFollowed(<<"what", "is", "my">>, c) THEN SplitSecond(c, <<"what", "is", "my">>)
    ELSE IF ContainsFollowed(<<"what's", "my">>, c) THEN SplitSecond(c, <<"what's", "my">>)
    ELSE IF ContainsFollowed(<<"do", "you", "know", "my">>, c)
         THEN SplitSecond(c, <<"do", "you", "know", "my">>)
    ELSE IF ContainsFollowed(<<"recall", "my">>, c) THEN SplitSecond(c, <<"recall", "my">>)
    ELSE IF ContainsFollowed(<<"recall">>, c) THEN SplitSecond(c, <<"recall">>)
    ELSE <<>>

\* KnowledgeSkill._recall
Recall(command, f, df, timers) ==
    LET query == RecallQuery(Lower(command))
        i == FirstMatchingFact(f, query, 1)
    IN  IF i # 0
        THEN Outcome(FALSE, Speak(<<"Your">> \o f[i].key \o <<"is">> \o f[i].val), f, df, timers)
        ELSE Outcome(FALSE,
                     Speak(<<"I don't know your">> \o query \o <<"Tell me to remember it!">>),
                     f, df, timers)

\* KnowledgeSkill.execute
KnowledgeExecute(command, f, df, timers, save_ok) ==
    LET c == Lower(command) IN
    IF Contains(<<"remember">>, c) THEN Remember(command, f, df, timers, save_ok)
    ELSE IF Contains(<<"forget">>, c) THEN Forget(command, f, df, timers, save_ok)
    ELSE IF AnyTrigger({<<"what", "is", "my">>, <<"what's", "my">>,
                        <<"do", "you", "know", "my">>, <<"recall">>}, c)
         THEN Recall(command, f, df, timers)
    ELSE Outcome(FALSE,
                 Speak(<<"I'm not sure what you want me to do with that information.">>),
                 f, df, timers)

\* ---- FileSkill (src/skills/files.py)
FileTriggers ==
    { <<"create", "file">>, <<"create", "folder">>, <<"new", "file">>, <<"new", "folder">>,
      <<"rename">>, <<"delete", "file">>, <<"delete", "folder">>, <<"move", "file">> }

FileCanHandle(command) == AnyTrigger(FileTriggers, command)

\* re.search(r"rename\s+(.+?)\s+to\s+(.+)"): a rename, a name, a to, a name
RenameMatches(c) ==
    \E i, j \in 1..Len(c) : c[i] = "rename" /\ i + 1 < j /\ c[j] = "to" /\ j < Len(c)

\* re.search(r"move\s+file\s+(.+?)\s+to\s+(.+)")
MoveMatches(c) ==
    \E i, j \in 1..Len(c) :
        /\ StartsAt(<<"move", "file">>, c, i)
        /\ i + 2 < j
        /\ c[j] = "to"
        /\ j < Len(c)

\* FileSkill.execute.  Every operation on the desktop is inside a try of
\* its own; os_result is what the file system did: "ok", "missing" (the file
\* is not there) or "error" (the operation raised).
FileExecute(command, os_result) ==
    LET c == Lower(command) IN
    IF Contains(<<"create", "file">>, c) \/ Contains(<<"new", "file">>, c)
    THEN IF ~(ContainsFollowed(<<"create", "file">>, c) \/ ContainsFollowed(<<"new", "file">>, c))
         THEN Speak(<<"What should I name the file?">>)
         ELSE IF os_result = "error" THEN Speak(<<"Couldn't create the file: {e}">>)
         ELSE Speak(<<"Created {filename} on your desktop.">>)
    ELSE IF Contains(<<"create", "folder">>, c) \/ Contains(<<"new", "folder">>, c)
    THEN IF ~(ContainsFollowed(<<"create", "folder">>, c) \/ ContainsFollowed(<<"new", "folder">>, c))
         THEN Speak(<<"What should I name the folder?">>)
         ELSE IF os_result = "error" THEN Speak(<<"Couldn't create the folder: {e}">>)
         ELSE Speak(<<"Created folder {foldername} on your desktop.">>)
    ELSE IF Contains(<<"delete", "file">>, c)
    THEN IF ~(ContainsFollowed(<<"delete", "file">>, c) \/ ContainsFollowed(<<"remove", "file">>, c))
         THEN Speak(<<"Which file should I delete?">>)
         ELSE IF os_result = "error" THEN Speak(<<"Couldn't delete the file: {e}">>)
         ELSE IF os_result = "missing" THEN Speak(<<"I couldn't find {filename} on your desktop.">>)
         ELSE Speak(<<"Deleted {filename}.">>)
    ELSE IF Contains(<<"delete", "folder">>, c)
    THEN IF ~(ContainsFollowed(<<"delete", "folder">>, c) \/ ContainsFollowed(<<"remove", "folder">>, c))
         THEN Speak(<<"Which folder should I delete?">>)
         ELSE IF os_result = "error" THEN Speak(<<"Couldn't delete the folder: {e}">>)
         ELSE IF os_result = "missing"
              THEN Speak(<<"I couldn't find folder {foldername} on your desktop.">>)
         ELSE Speak(<<"Deleted folder {foldername}.">>)
    ELSE IF Contains(<<"rename">>, c)
    THEN IF ~RenameMatches(c) THEN Speak(<<"Try saying 'rename old name to new name'.">>)
         ELSE IF os_result = "error" THEN Speak(<<"Couldn't rename: {e}">>)
         ELSE IF os_result = "missing" THEN Speak(<<"I couldn't find {old_name}.">>)
         ELSE Speak(<<"Renamed {old_name} to {new_name}.">>)
    ELSE IF Contains(<<"move", "file">>, c)
    THEN IF ~MoveMatches(c) THEN Speak(<<"Try saying 'move file name to folder'.">>)
         ELSE IF os_result = "error" THEN Speak(<<"Couldn't move the file: {e}">>)
         ELSE IF os_result = "missing" THEN Speak(<<"I couldn't find {filename}.">>)
         ELSE Speak(<<"Moved {filename} to {destination}.">>)
    ELSE Speak(<<"I'm not sure what file operation you want.">>)

\* ---- SkillManager (src/skills/__init__.py)
\* SkillManager._load_builtin_skills: the order of registration
SkillOrder == <<"weather", "timer", "knowledge", "files">>

\* Skill.can_handle of the skill called name
CanHandle(name, command) ==
    CASE name = "weather" -> WeatherCanHandle(command)
      [] name = "timer" -> TimerCanHandle(command)
      [] name = "knowledge" -> KnowledgeCanHandle(command)
      [] name = "files" -> FileCanHandle(command)

\* The loop of find_skill from skill i on: the name of the first skill that
\* can handle the command, "" for None
RECURSIVE FindFrom(_, _)
FindFrom(command_lower, i) ==
    IF i > Len(SkillOrder) THEN ""
    ELSE IF CanHandle(SkillOrder[i], command_lower) THEN SkillOrder[i]
    ELSE FindFrom(command_lower, i + 1)

\* A dispatcher that keeps the last skill that can handle the command
RECURSIVE FindLastFrom(_, _)
FindLastFrom(command_lower, i) ==
    IF i < 1 THEN ""
    ELSE IF CanHandle(SkillOrder[i], command_lower) THEN SkillOrder[i]
    ELSE FindLastFrom(command_lower, i - 1)

find_skill_last(command) == FindLastFrom(Lower(command), Len(SkillOrder))

\* SkillManager.find_skill
find_skill(command) == FindFrom(Lower(command), 1)

\* The environment of one command: whether a write of a file succeeds,
\* whether the weather service answers, what the file system does
Envs == [save_ok : BOOLEAN, net_ok : BOOLEAN, os_result : {"ok", "missing", "error"}]

\* Skill.execute of the skill called name
SkillExecute(name, command, f, df, timers, env) ==
    CASE name = "weather" -> Outcome(FALSE, WeatherExecute(command, env.net_ok), f, df, timers)
      [] name = "timer" -> TimerExecute(command, f, df, timers)
      [] name = "knowledge" -> KnowledgeExecute(command, f, df, timers, env.save_ok)
      [] name = "files" -> Outcome(FALSE, FileExecute(command, env.os_result), f, df, timers)

\* -------------------------------------------------------------------------
\* Executor (src/assistant/executor.py)
\* -------------------------------------------------------------------------
\* The keys of action_map
HandlerKinds ==
    { "open_app", "open_file", "open_url", "search_google", "search_youtube",
      "volume_up", "volume_down", "volume_mute", "volume_set",
      "media_play_pause", "media_next", "media_prev", "lock_screen", "screenshot",
      "shutdown", "restart", "sleep", "speak" }

BoolStr(b) == IF b THEN "True" ELSE "False"

\* int(level) succeeds
IsNumeric(v) == v.type = "int" \/ (v.type = "str" /\ v.text \in {<<w>> : w \in NumberWords})

\* handler = action_map.get(action): the name of the handler, "" for None.
\* A list is no key of a dict: action_map.get raises TypeError for it.
ExecutorHandler(kind) ==
    IF kind.type = "str" /\ Len(kind.text) = 1 /\ kind.text[1] \in HandlerKinds
    THEN kind.text[1]
    ELSE ""

\* Executor.execute(action, target): "True", "False", or "raise" when an
\* exception leaves execute.  os_ok: the operating system did what the
\* handler asked, without raising.
ExecutorExecute(kind, target, os_ok) ==
    IF kind.type = "list" THEN "raise"
    ELSE IF ExecutorHandler(kind) = "" THEN "False"
    ELSE LET k == ExecutorHandler(kind) IN
         CASE k = "open_app" ->
                  IF ~Truthy(target) THEN "False"
                  ELSE IF target.type # "str" THEN "raise"
                  ELSE BoolStr(os_ok)
           [] k \in {"open_file", "open_url"} ->
                  IF ~Truthy(target) THEN "False"
                  ELSE IF target.type # "str" THEN "False"
                  ELSE BoolStr(os_ok)
           [] k \in {"search_google", "search_youtube"} ->
                  IF ~Truthy(target) THEN "False"
                  ELSE IF target.type # "str" THEN "raise"
                  ELSE BoolStr(os_ok)
           [] k = "volume_set" -> IF IsNumeric(target) THEN BoolStr(os_ok) ELSE "False"
           [] k = "speak" -> "True"
           [] OTHER -> BoolStr(os_ok)

\* -------------------------------------------------------------------------
\* Brain (src/assistant/brain.py) and Simon._execute_command with its two
\* callers (src/main.py), one command at a time
\* -------------------------------------------------------------------------
PyList == [type |-> "list", text |-> <<>>]

\* The list of a custom command
SubAction(kind, target) == [action |-> PyStr(<<kind>>), target |-> target]

\* ---- Brain._parse_response and the LLM
\* The content of a reply is a sequence of pieces of text:
\*   "fence"  a code fence, three backticks
\*   "json"   the word json; a fence and then this piece is the text of a json fence
\*   "py"     another language tag
\*   "ws"     blanks or line breaks
\*   "hi"     words that are no JSON
\*   "{}"     the text of a JSON object
\*   "{" "}"  the two ends of the text of a JSON object, around the text of
\*            its response, which is a string
\*   "[]"     the text of a JSON value that is no object
\* The fields of the object are carried beside the content; a field is NONE
\* when the object has no such key.
Pieces == {"fence", "json", "py", "ws", "hi", "{}", "{", "}", "[]"}

\* What the text of a JSON string may be made of
StringPieces == {"fence", "json", "py", "ws", "hi"}

Reply(content, kind, target, response) ==
    [content |-> content, action |-> kind, target |-> target, response |-> response]

\* content.strip()
RECURSIVE StripWs(_)
StripWs(s) ==
    IF s = <<>> THEN <<>>
    ELSE IF Head(s) = "ws" THEN StripWs(Tail(s))
    ELSE IF s[Len(s)] = "ws" THEN StripWs(SubSeq(s, 1, Len(s) - 1))
    ELSE s

\* sep in s
PiecesIn(sep, s) == \E i \in 1..Len(s) : StartsAt(sep, s, i)

\* s.split(sep)[0]: what comes before the first sep, all of s without one
SplitFirst(s, sep) ==
    LET at == {k \in 1..Len(s) : StartsAt(sep, s, k)}
    IN  IF at = {} THEN s ELSE SubSeq(s, 1, Least(at) - 1)

\* s.split(sep)[1], sep being in s: what is between the first sep and the next
SplitNext(s, sep) ==
    LET i == Least({k \in 1..Len(s) : StartsAt(sep, s, k)})
    IN  SplitFirst(SubSeq(s, i + Len(sep), Len(s)), sep)

\* The first lines of _parse_response: the content is stripped, and cut to
\* what stands between the first json fence (or else the first fence) and the
\* fence after it
Unfence(content) ==
    LET c == StripWs(content) IN
    IF PiecesIn(<<"fence", "json">>, c)
    THEN SplitFirst(SplitNext(c, <<"fence", "json">>), <<"fence">>)
    ELSE IF PiecesIn(<<"fence">>, c)
    THEN SplitFirst(SplitNext(c, <<"fence">>), <<"fence">>)
    ELSE c

NoData == [kind |-> "invalid", action |-> NONE, target |-> NONE, response |-> NONE]

\* json.loads(s): an object with its fields, another JSON value, or
\* JSONDecodeError ("invalid")
JsonLoads(s, reply) ==
    CASE s = <<"{}">> ->
             [kind |-> "object", action |-> reply.action, target |-> reply.target,
              response |-> reply.response]
      [] s = <<"[]">> -> [NoData EXCEPT !.kind = "other"]
      [] /\ Len(s) >= 2
         /\ s[1] = "{"
         /\ s[Len(s)] = "}"
         /\ \A i \in 2..(Len(s) - 1) : s[i] \in StringPieces ->
             [kind |-> "object", action |-> reply.action, target |-> reply.target,
              response |-> Some(PyStr(SubSeq(s, 2, Len(s) - 1)))]
      [] OTHER -> NoData

\* dict.get(key, default)
GetOr(field, default) == IF field = NONE THEN default ELSE ValueOf(field)

\* Brain._parse_response: the Action, or raised when an exception other than
\* JSONDecodeError leaves it (data.get on a value that is no object)
parse_response(reply) ==
    LET content == Unfence(reply.content)
        data == JsonLoads(StripWs(content), reply)
    IN  CASE data.kind = "object" ->
                 [raised |-> FALSE,
                  action |-> MakeAction(GetOr(data.action, PyStr(<<"speak">>)),
                                        GetOr(data.target, PyNone),
                                        <<>>,
                                        GetOr(data.response, PyStr(<<"Done">>)))]
          [] data.kind = "other" -> [raised |-> TRUE, action |-> NoAction]
          [] OTHER ->
                 [raised |-> FALSE,
                  action |-> Speak(IF content # <<>> THEN content
                                   ELSE <<"I didn't understand that.">>)]

ReplyKinds == {<<"speak">>, <<"open_app">>, <<"dance">>, <<"custom">>}

ReplyTargets == {PyNone, PyStr(<<"chrome">>), PyInt(<<"50">>)}

ReplyResponses == {PyStr(<<"Opening Chrome">>), PyStr(<<>>), PyNone}

Optional(S) == {NONE} \cup {Some(x) : x \in S}

\* What client.chat gives: it raises (a ResponseError or another exception),
\* or the content of the reply
LLMResults ==
    { [error |-> e, reply |-> Reply(<<>>, NONE, NONE, NONE)] :
        e \in {"ResponseError", "Exception"} }
    \cup
    { [error |-> "", reply |-> Reply(<<"{}">>, k, t, r)] :
        k \in Optional({PyStr(x) : x \in ReplyKinds}),
        t \in Optional(ReplyTargets), r \in Optional(ReplyResponses) }
    \cup
    { [error |-> "", reply |-> Reply(c, Some(PyStr(<<"open_app">>)),
                                     Some(PyStr(<<"chrome">>)),
                                     Some(PyStr(<<"Opening Chrome">>)))] :
        c \in {<<"fence", "json", "ws", "{}", "ws", "fence">>, <<"fence", "ws", "{}", "ws", "fence">>} }
    \cup
    { [error |-> "", reply |-> Reply(c, NONE, NONE, NONE)] :
        c \in {<<>>, <<"hi">>, <<"[]">>, <<"fence", "fence">>, <<"fence", "hi", "fence">>,
               <<"fence", "[]", "fence">>} }

\* The user's commands: every text of at most MaxCommandWords of these
\* words, and some longer ones
CommandWords == {"go", "weather", "timer", "remember", "hello"}

LongCommands ==
    { <<"remember", "my", "k", "is", "v">>, <<"forget", "my", "k">>,
      <<"what", "is", "my", "k">>, <<"timer", "5", "minutes">>,
      <<"rename", "a", "to", "b">> }

Utterances ==
    UNION {[1..n -> CommandWords] : n \in 1..MaxCommandWords} \cup LongCommands

\* bool(custom_actions) in Brain.process: None and the empty list are false
ListTruthy(opt) == opt # NONE /\ ValueOf(opt) # <<>>

\* The first steps of Brain.process: the registry, then the skills.  The
\* result says where the command was resolved ("registry", "skill", "llm"
\* when neither took it), and what the skill left.
BrainResolve(cmds, cmd, f, df, timers, env) ==
    LET custom_actions == get_command(cmds, cmd) IN
    IF ListTruthy(custom_actions)
    THEN [by |-> "registry", skill |-> "",
          out |-> Outcome(FALSE,
                          MakeAction(PyStr(<<"custom">>), PyList, ValueOf(custom_actions),
                                     PyStr(<<"Executing">> \o cmd)),
                          f, df, timers)]
    ELSE LET name == find_skill(cmd) IN
         IF name # ""
         THEN [by |-> "skill", skill |-> name,
               out |-> SkillExecute(name, cmd, f, df, timers, env)]
         ELSE [by |-> "llm", skill |-> "", out |-> Outcome(FALSE, NoAction, f, df, timers)]

\* Brain.process with the handler of ollama.ResponseError only: another
\* exception of the call leaves process, and no Action is returned
BrainClassifyOllamaOnly(msgs, maxm, llm) ==
    IF llm.error = "ResponseError"
    THEN [action |-> Speak(<<"Sorry, Ollama error: {e}">>), messages |-> msgs]
    ELSE IF llm.error # "" \/ parse_response(llm.reply).raised
    THEN [action |-> NoAction, messages |-> msgs]
    ELSE LET a == parse_response(llm.reply).action
         IN  [action |-> a, messages |-> add_message(msgs, maxm, "assistant", a.response)]

\* The LLM part of Brain.process, after add_user_message: the Action it
\* returns and the history it leaves
BrainClassify(msgs, maxm, llm) ==
    IF llm.error = "ResponseError"
    THEN [action |-> Speak(<<"Sorry, Ollama error: {e}">>), messages |-> msgs]
    ELSE IF llm.error # "" \/ parse_response(llm.reply).raised
    THEN [action |-> Speak(<<"Sorry, something went wrong: {e}">>), messages |-> msgs]
    ELSE LET a == parse_response(llm.reply).action
         IN  [action |-> a, messages |-> add_message(msgs, maxm, "assistant", a.response)]

\* The registries of the pipeline: none, a command of two sub-actions, a
\* command with an empty list, a command whose first sub-action has a number
\* as its target
CmdRegistries ==
    { <<>>,
      <<[key |-> <<"go">>,
         val |-> <<SubAction("open_url", PyNone), SubAction("open_app", PyStr(<<"chrome">>))>>]>>,
      <<[key |-> <<"go">>, val |-> <<>>]>>,
      <<[key |-> <<"go">>,
         val |-> <<SubAction("search_google", PyInt(<<"50">>)),
                   SubAction("volume_up", PyNone)>>]>> }

CmdInit ==
    /\ pc = "idle"
    /\ entry = ""
    /\ current_command = <<>>
    /\ current_action = NoAction
    /\ consulted = {}
    /\ skill_run = <<>>
    /\ brain_raised = FALSE
    /\ llm_result = "none"
    /\ llm_request = <<>>
    /\ sub_index = 0
    /\ exec_log = <<>>
    /\ spoken = <<>>
    /\ unhandled = FALSE

\* The command thread starts: _process_with_command(command), or
\* _process_command once it has recognised a command that is not empty.
\* One command is followed to its end; what earlier commands left (the
\* registry, the facts) is drawn by the initial state.
StartCommand ==
    \E e \in {"_process_with_command", "_process_command"}, cmd \in Utterances :
        /\ pc = "idle"
        /\ pc' = "brain"
        /\ entry' = e
        /\ current_command' = cmd
        /\ current_action' = NoAction
        /\ consulted' = {}
        /\ skill_run' = <<>>
        /\ brain_raised' = FALSE
        /\ llm_result' = "none"
        /\ llm_request' = <<>>
        /\ sub_index' = 0
        /\ exec_log' = <<>>
        /\ spoken' = <<>>
        /\ unhandled' = FALSE
        /\ UNCHANGED <<mainVars, fnVars, regVars, memVars, skillVars>>

\* Brain.process with add_user_message as its first statement: the registry
\* or a skill resolves the command after it has been recorded
BrainProcessResolvedRecorded ==
    /\ pc = "brain"
    /\ \E env \in Envs :
        LET r == BrainResolve(commands, current_command, facts, disk_facts, active_timers, env)
        IN  /\ r.by # "llm"
            /\ consulted' = IF r.by = "registry" THEN {"registry"} ELSE {"registry", "skills"}
            /\ skill_run' = IF r.by = "skill" THEN <<r.skill>> ELSE <<>>
            /\ facts' = r.out.facts
            /\ disk_facts' = r.out.disk_facts
            /\ active_timers' = r.out.active_timers
            /\ brain_raised' = r.out.raised
            /\ current_action' = r.out.action
            /\ pc' = IF r.out.raised THEN "except" ELSE "execute"
    /\ messages' = add_message(messages, max_messages, "user", PyStr(current_command))
    /\ UNCHANGED <<mainVars, fnVars, regVars, max_messages, mem_call, entry, current_command,
                   llm_result, llm_request, sub_index, exec_log, spoken, unhandled>>

\* action = self.brain.process(command), resolved by the registry or by a
\* skill: the Action is returned, or the skill's exception leaves process
BrainProcessResolved ==
    /\ pc = "brain"
    /\ \E env \in Envs :
        LET r == BrainResolve(commands, current_command, facts, disk_facts, active_timers, env)
        IN  /\ r.by # "llm"
            /\ consulted' = IF r.by = "registry" THEN {"registry"} ELSE {"registry", "skills"}
            /\ skill_run' = IF r.by = "skill" THEN <<r.skill>> ELSE <<>>
            /\ facts' = r.out.facts
            /\ disk_facts' = r.out.disk_facts
            /\ active_timers' = r.out.active_timers
            /\ brain_raised' = r.out.raised
            /\ current_action' = r.out.action
            /\ pc' = IF r.out.raised THEN "except" ELSE "execute"
    /\ UNCHANGED <<mainVars, fnVars, regVars, memVars, entry, current_command, llm_result, llm_request, sub_index, exec_log,
                   spoken, unhandled>>

\* KnowledgeSkill.get_context: a heading and one line for each fact
RECURSIVE FactLines(_, _)
FactLines(f, i) ==
    IF i > Len(f) THEN <<>>
    ELSE <<"-">> \o f[i].key \o <<":">> \o f[i].val \o FactLines(f, i + 1)

KnowledgeContext(f) ==
    IF f = <<>> THEN <<>> ELSE <<"Known facts about the user:">> \o FactLines(f, 1)

\* TimerSkill.get_context: a heading when a timer is active, and one line
\* for each active timer (with the time that remains, which is not modelled)
RECURSIVE TimerLines(_, _)
TimerLines(timers, i) ==
    IF i > Len(timers) THEN <<>>
    ELSE (IF timers[i].active
          THEN <<"- {mins}m {secs}s remaining:">> \o timers[i].message
          ELSE <<>>) \o TimerLines(timers, i + 1)

TimerContext(timers) ==
    IF \E i \in 1..Len(timers) : timers[i].active
    THEN <<"Active timers:">> \o TimerLines(timers, 1)
    ELSE <<>>

\* SkillManager.get_all_context: the contexts of the skills that have one,
\* in the order of the skills (the other skills have none)
SkillsContext(f, timers) == TimerContext(timers) \o KnowledgeContext(f)

SystemMessage == [role |-> "system", content |-> PyStr(<<"SYSTEM_PROMPT">>)]

\* The last message of the request: time and date, the context of the
\* skills when there is one, and the command
UserMessage(command, context) ==
    [role |-> "user",
     content |-> PyStr(<<"Current time: {current_time}, Date: {current_date}">>
                       \o context \o <<"User command:">> \o command)]

\* Memory.get_context: the stored messages as role and content, in order
get_context(msgs) == [i \in 1..Len(msgs) |-> [role |-> msgs[i].role, content |-> msgs[i].content]]

\* The list without its last item: xs[:-1]
ButLast(xs) == SubSeq(xs, 1, Len(xs) - 1)

\* The request with the whole of get_context in it
BuildMessagesWhole(msgs, command, context) ==
    <<SystemMessage>> \o get_context(msgs) \o <<UserMessage(command, context)>>

\* The messages Brain.process gives to client.chat, msgs being the history
\* after add_user_message(command)
BuildMessages(msgs, command, context) ==
    <<SystemMessage>> \o ButLast(get_context(msgs)) \o <<UserMessage(command, context)>>

\* action = self.brain.process(command), neither the registry nor a skill
\* having taken the command: add_user_message, client.chat, _parse_response,
\* add_assistant_message
BrainProcessLLM ==
    /\ pc = "brain"
    /\ BrainResolve(commands, current_command, facts, disk_facts, active_timers,
                    [save_ok |-> TRUE, net_ok |-> TRUE, os_result |-> "ok"]).by = "llm"
    /\ \E llm \in LLMResults :
        LET msgs == add_message(messages, max_messages, "user", PyStr(current_command))
            c == BrainClassify(msgs, max_messages, llm)
        IN  /\ current_action' = c.action
            /\ messages' = c.messages
            /\ llm_result' = IF llm.error = "" THEN "ok" ELSE llm.error
            /\ llm_request' = BuildMessages(msgs, current_command,
                                            SkillsContext(facts, active_timers))
            /\ mem_call' = IF c.messages = msgs
                           THEN [op |-> "add", role |-> "user", content |-> PyStr(current_command)]
                           ELSE [op |-> "add", role |-> "assistant",
                                 content |-> c.action.response]
    /\ consulted' = {"registry", "skills", "llm"}
    /\ skill_run' = <<>>
    /\ brain_raised' = FALSE
    /\ pc' = "execute"
    /\ UNCHANGED <<mainVars, fnVars, regVars, skillVars, max_messages, entry, current_command,
                   sub_index, exec_log, spoken, unhandled>>

IsCustom(a) == a.action = PyStr(<<"custom">>)

LogEntry(kind, target, result) == [action |-> kind, target |-> target, result |-> result]

\* One turn of  for sub_action in action["target"]  over the list of a
\* custom command: self.executor.execute(sub_action["action"],
\* sub_action.get("target")), its result dropped
ExecuteSubAction ==
    /\ pc = "execute"
    /\ IsCustom(current_action)
    /\ current_action.target = PyList
    /\ sub_index < Len(current_action.sub)
    /\ \E os_ok \in BOOLEAN :
        LET sub == current_action.sub[sub_index + 1]
            result == ExecutorExecute(sub.action, sub.target, os_ok)
        IN  /\ exec_log' = Append(exec_log, LogEntry(sub.action, sub.target, result))
            /\ IF result = "raise"
               THEN pc' = "except" /\ UNCHANGED sub_index
               ELSE pc' = "execute" /\ sub_index' = sub_index + 1
    /\ UNCHANGED <<mainVars, fnVars, regVars, memVars, skillVars, entry, current_command, llm_result, llm_request,
                   current_action, consulted,
                   skill_run, brain_raised, spoken, unhandled>>

\* The end of the loop: response = action["response"].  A "custom" action
\* that the LLM made has no list as its target: iterating None or a number
\* raises, and so does sub_action["action"] on a character of a text.
ExecuteCustomEnd ==
    /\ pc = "execute"
    /\ IsCustom(current_action)
    /\ IF current_action.target = PyList
       THEN sub_index = Len(current_action.sub) /\ pc' = "speak"
       ELSE pc' = IF current_action.target.type = "str" /\ current_action.target.text = <<>>
                  THEN "speak" ELSE "except"
    /\ UNCHANGED <<mainVars, fnVars, regVars, memVars, skillVars, entry, current_command, llm_result, llm_request,
                   current_action, consulted,
                   skill_run, brain_raised, sub_index, exec_log, spoken, unhandled>>

\* The else branch of _execute_command: an action that is not "speak" goes
\* to the executor, and a false result replaces the response
ExecuteSingle ==
    /\ pc = "execute"
    /\ ~IsCustom(current_action)
    /\ IF current_action.action # PyStr(<<"speak">>)
       THEN \E os_ok \in BOOLEAN :
                LET result == ExecutorExecute(current_action.action, current_action.target, os_ok) IN
                /\ exec_log' = Append(exec_log, LogEntry(current_action.action, current_action.target, result))
                /\ pc' = IF result = "raise" THEN "except" ELSE "speak"
                /\ current_action' = IF result = "False"
                             THEN [current_action EXCEPT !.response = PyStr(<<"Sorry, I couldn't do that">>)]
                             ELSE current_action
       ELSE pc' = "speak" /\ UNCHANGED <<exec_log, current_action>>
    /\ UNCHANGED <<mainVars, fnVars, regVars, memVars, skillVars, entry, current_command, llm_result, llm_request,
                   consulted, skill_run,
                   brain_raised, sub_index, spoken, unhandled>>

\* self.speaker.speak(response); Speaker.speak catches what the synthesis
\* raises
SpeakResponse ==
    /\ pc = "speak"
    /\ spoken' = Append(spoken, current_action.response)
    /\ pc' = "finally"
    /\ UNCHANGED <<mainVars, fnVars, regVars, memVars, skillVars, entry, current_command, llm_result, llm_request,
                   current_action, consulted,
                   skill_run, brain_raised, sub_index, exec_log, unhandled>>

\* An exception has left _execute_command.  _process_command catches it and
\* speaks; _process_with_command has a finally and no except, so that the
\* exception leaves the thread.
HandleException ==
    /\ pc = "except"
    /\ IF entry = "_process_command"
       THEN /\ spoken' = Append(spoken, PyStr(<<"Sorry, something went wrong.">>))
            /\ UNCHANGED unhandled
       ELSE /\ unhandled' = TRUE
            /\ UNCHANGED spoken
    /\ pc' = "finally"
    /\ UNCHANGED <<mainVars, fnVars, regVars, memVars, skillVars, entry, current_command, llm_result, llm_request,
                   current_action, consulted,
                   skill_run, brain_raised, sub_index, exec_log>>

\* The finally block of the thread's target
Finally ==
    /\ pc = "finally"
    /\ pc' = "done"
    /\ UNCHANGED <<mainVars, fnVars, regVars, memVars, skillVars, entry, current_command, llm_result, llm_request,
                   current_action, consulted,
                   skill_run, brain_raised, sub_index, exec_log, spoken, unhandled>>

\* timer_callback of _start_timer: time.sleep(duration) returns
TimerSleepEnds ==
    /\ \E i \in 1..Len(active_timers) :
        /\ active_timers[i].thread = "sleeping"
        /\ active_timers' = [active_timers EXCEPT ![i].thread = "woken"]
    /\ UNCHANGED <<mainVars, fnVars, regVars, memVars, cmdVars, facts, disk_facts>>

\* The callback that goes on as if nothing had to be done after the sleep
TimerFireKeepsActive ==
    /\ \E i \in 1..Len(active_timers) :
        /\ active_timers[i].thread = "woken"
        /\ active_timers' = [active_timers EXCEPT ![i].thread = "done"]
    /\ UNCHANGED <<mainVars, fnVars, regVars, memVars, cmdVars, facts, disk_facts>>

\* timer_callback of _start_timer, after its sleep: _on_timer_complete when
\* the timer is active, and the thread ends
TimerFire ==
    /\ \E i \in 1..Len(active_timers) :
        /\ active_timers[i].thread = "woken"
        /\ active_timers' =
               IF active_timers[i].active
               THEN [active_timers EXCEPT ![i].active = FALSE,
                                          ![i].fired = active_timers[i].fired + 1,
                                          ![i].thread = "done"]
               ELSE [active_timers EXCEPT ![i].thread = "done"]
    /\ UNCHANGED <<mainVars, fnVars, regVars, memVars, cmdVars, facts, disk_facts>>

CmdNext ==
    \/ StartCommand
    \/ BrainProcessResolved
    \/ BrainProcessLLM
    \/ ExecuteSubAction
    \/ ExecuteCustomEnd
    \/ ExecuteSingle
    \/ SpeakResponse
    \/ HandleException
    \/ Finally
    \/ TimerSleepEnds
    \/ TimerFire

\* KnowledgeSkill.__init__ with _load; TimerSkill.__init__
StoredFacts == {NONE, Some(<<[key |-> <<"k">>, val |-> <<"v">>]>>)}

SkillInit ==
    /\ disk_facts \in StoredFacts
    /\ facts = IF disk_facts = NONE THEN <<>> ELSE ValueOf(disk_facts)
    /\ active_timers = <<>>

SkillIdle ==
    /\ disk_facts = NONE
    /\ facts = <<>>
    /\ active_timers = <<>>

\* CustomCommands.__init__ in the pipeline
CmdRegInit ==
    /\ disk_commands \in {Some(d) : d \in CmdRegistries}
    /\ commands = LoadCommands(disk_commands)
    /\ reg_call = NoCall
    /\ reg_writes = <<>>
    /\ reg_args = NoArgs
    /\ reg_ret = NoRet

\* -------------------------------------------------------------------------
\* Simon (src/main.py): the wake-word listener thread, the hotkey callback,
\* the tray callbacks and the command threads
\* -------------------------------------------------------------------------
\* The command threads that are alive together
MaxThreads == 2

\* Simon.CONVERSATION_TIMEOUT, in seconds
CONVERSATION_TIMEOUT == 5

Unlocked == [by |-> "none", thread |-> 0]

HeldByWake == [by |-> "wake", thread |-> 0]

HeldByThread(t) == [by |-> "command", thread |-> t]

NoThread == [target |-> "", pc |-> "none"]

ThreadIds == 1..MaxThreads

FreeSlots == {t \in ThreadIds : threads[t] = NoThread}

\* An acquire that does not look at the lock
TryAcquireAnyway(lock) == TRUE

\* self._mic_lock.acquire(blocking=False): true when the lock was free
TryAcquire(lock) == lock = Unlocked

\* threading.Thread(target=...).start(): _process_command begins with its
\* wait for the microphone lock, _process_with_command with _execute_command
StartThread(target) ==
    [threads EXCEPT ![Least(FreeSlots)] =
        [target |-> target,
         pc |-> IF target = "_process_command" THEN "acquire" ELSE "execute"]]

MainInit ==
    /\ processing = FALSE
    /\ enabled = TRUE
    /\ in_conversation = FALSE
    /\ response_age = CONVERSATION_TIMEOUT
    /\ stop_wake_listener = FALSE
    /\ mic_lock = Unlocked
    /\ wake_pc = "loop"
    /\ hotkey_pc = "idle"
    /\ threads = [t \in ThreadIds |-> NoThread]

\* while not self._stop_wake_listener.is_set():
\*     if not self._enabled or self._processing: sleep, continue
WakeLoopCheck ==
    /\ wake_pc = "loop"
    /\ wake_pc' = IF stop_wake_listener THEN "exited"
                  ELSE IF ~enabled \/ processing THEN "loop"
                  ELSE "conversation"
    /\ UNCHANGED <<restVars, processing, enabled, in_conversation, response_age,
                   stop_wake_listener, mic_lock, hotkey_pc, threads>>

\* if self._in_conversation: within the timeout the iteration is skipped,
\* after it the conversation is over
WakeConversationCheck ==
    /\ wake_pc = "conversation"
    /\ IF in_conversation /\ response_age < CONVERSATION_TIMEOUT
       THEN wake_pc' = "loop" /\ UNCHANGED in_conversation
       ELSE wake_pc' = "acquire" /\ in_conversation' = FALSE
    /\ UNCHANGED <<restVars, processing, enabled, response_age, stop_wake_listener, mic_lock,
                   hotkey_pc, threads>>

\* if not self._mic_lock.acquire(blocking=False): sleep, continue
WakeAcquire ==
    /\ wake_pc = "acquire"
    /\ IF TryAcquire(mic_lock)
       THEN mic_lock' = HeldByWake /\ wake_pc' = "listen"
       ELSE UNCHANGED mic_lock /\ wake_pc' = "backoff"
    /\ UNCHANGED <<restVars, processing, enabled, in_conversation, response_age,
                   stop_wake_listener, hotkey_pc, threads>>

\* time.sleep(0.2); continue
WakeBackoff ==
    /\ wake_pc = "backoff"
    /\ wake_pc' = "loop"
    /\ UNCHANGED <<restVars, processing, enabled, in_conversation, response_age,
                   stop_wake_listener, mic_lock, hotkey_pc, threads>>

\* self._recognizer.listen(...) ends with audio or raises (nothing heard
\* within the timeout); finally: self._mic_lock.release()
WakeListen ==
    /\ wake_pc = "listen"
    /\ mic_lock' = Unlocked
    /\ \E heard \in BOOLEAN : wake_pc' = IF heard THEN "recognize" ELSE "loop"
    /\ UNCHANGED <<restVars, processing, enabled, in_conversation, response_age,
                   stop_wake_listener, hotkey_pc, threads>>

\* recognize_google and _check_wake_word: nothing (no wake word, or an
\* exception that the handlers swallow), the wake word alone, or the wake
\* word with a command, which starts _process_with_command at once
WakeRecognize ==
    /\ wake_pc = "recognize"
    /\ \E heard \in {"nothing", "wake_word", "wake_word_command"} :
        CASE heard = "nothing" ->
                 /\ wake_pc' = "loop"
                 /\ UNCHANGED <<processing, in_conversation, threads>>
          [] heard = "wake_word" ->
                 /\ wake_pc' = "activate"
                 /\ UNCHANGED <<processing, in_conversation, threads>>
          [] heard = "wake_word_command" ->
                 /\ FreeSlots # {}
                 /\ processing' = TRUE
                 /\ in_conversation' = TRUE
                 /\ threads' = StartThread("_process_with_command")
                 /\ wake_pc' = "loop"
    /\ UNCHANGED <<restVars, enabled, response_age, stop_wake_listener, mic_lock, hotkey_pc>>

\* _on_hotkey: if not self._enabled or self._processing: return
OnHotkey ==
    /\ hotkey_pc = "idle"
    /\ ~stop_wake_listener
    /\ enabled /\ ~processing
    /\ hotkey_pc' = "activate"
    /\ UNCHANGED <<restVars, processing, enabled, in_conversation, response_age,
                   stop_wake_listener, mic_lock, wake_pc, threads>>

\* Where the caller of _activate goes when _activate returns
Returned(caller) == IF caller = "wake" THEN "loop" ELSE "idle"

\* _activate, its test: if self._processing: return
ActivateCheck(caller) ==
    /\ IF caller = "wake" THEN wake_pc = "activate" ELSE hotkey_pc = "activate"
    /\ LET next == IF processing THEN Returned(caller) ELSE "activate_set" IN
       IF caller = "wake"
       THEN wake_pc' = next /\ UNCHANGED hotkey_pc
       ELSE hotkey_pc' = next /\ UNCHANGED wake_pc
    /\ UNCHANGED <<restVars, processing, enabled, in_conversation, response_age,
                   stop_wake_listener, mic_lock, threads>>

\* _activate, after its test: the flags are set and _process_command starts
ActivateSet(caller) ==
    /\ IF caller = "wake" THEN wake_pc = "activate_set" ELSE hotkey_pc = "activate_set"
    /\ FreeSlots # {}
    /\ processing' = TRUE
    /\ in_conversation' = TRUE
    /\ threads' = StartThread("_process_command")
    /\ IF caller = "wake"
       THEN wake_pc' = Returned(caller) /\ UNCHANGED hotkey_pc
       ELSE hotkey_pc' = Returned(caller) /\ UNCHANGED wake_pc
    /\ UNCHANGED <<restVars, enabled, response_age, stop_wake_listener, mic_lock>>

\* _process_command: with self._mic_lock, which waits for the lock
ThreadAcquire(t) ==
    /\ threads[t].pc = "acquire"
    /\ mic_lock = Unlocked
    /\ mic_lock' = HeldByThread(t)
    /\ threads' = [threads EXCEPT ![t].pc = "listen"]
    /\ UNCHANGED <<restVars, processing, enabled, in_conversation, response_age,
                   stop_wake_listener, wake_pc, hotkey_pc>>

\* self._recognizer.listen(...) ends with audio or raises; the with block
\* releases the lock either way, and the exception goes to the handler that
\* speaks
ThreadListen(t) ==
    /\ threads[t].pc = "listen"
    /\ mic_lock' = Unlocked
    /\ \E heard \in BOOLEAN :
        threads' = [threads EXCEPT ![t].pc = IF heard THEN "recognize" ELSE "finally"]
    /\ UNCHANGED <<restVars, processing, enabled, in_conversation, response_age,
                   stop_wake_listener, wake_pc, hotkey_pc>>

\* recognize_google: a command goes to _execute_command; an empty command
\* and an unrecognised one are answered by a sentence
ThreadRecognize(t) ==
    /\ threads[t].pc = "recognize"
    /\ \E heard \in {"command", "empty", "unknown"} :
        threads' = [threads EXCEPT ![t].pc = IF heard = "command" THEN "execute"
                                              ELSE "finally"]
    /\ UNCHANGED <<restVars, processing, enabled, in_conversation, response_age,
                   stop_wake_listener, mic_lock, wake_pc, hotkey_pc>>

\* self._execute_command(command) returns or raises: classification,
\* execution and speech
ThreadExecute(t) ==
    /\ threads[t].pc = "execute"
    /\ threads' = [threads EXCEPT ![t].pc = "finally"]
    /\ UNCHANGED <<restVars, processing, enabled, in_conversation, response_age,
                   stop_wake_listener, mic_lock, wake_pc, hotkey_pc>>

\* A thread's end that leaves self._processing as it is
ThreadFinallyKeepsFlag(t) ==
    /\ threads[t].pc = "finally"
    /\ response_age' = 0
    /\ threads' = [threads EXCEPT ![t] = NoThread]
    /\ UNCHANGED <<restVars, processing, enabled, in_conversation, stop_wake_listener, mic_lock,
                   wake_pc, hotkey_pc>>

\* finally: self._processing = False; self._last_response_time = time.time()
\* and the thread ends
ThreadFinally(t) ==
    /\ threads[t].pc = "finally"
    /\ processing' = FALSE
    /\ response_age' = 0
    /\ threads' = [threads EXCEPT ![t] = NoThread]
    /\ UNCHANGED <<restVars, enabled, in_conversation, stop_wake_listener, mic_lock, wake_pc,
                   hotkey_pc>>

\* A second passes
Tick ==
    /\ response_age < CONVERSATION_TIMEOUT
    /\ response_age' = response_age + 1
    /\ UNCHANGED <<restVars, processing, enabled, in_conversation, stop_wake_listener, mic_lock,
                   wake_pc, hotkey_pc, threads>>

\* SystemTray._on_toggle_listening and Simon._on_toggle_listening
ToggleListening ==
    /\ ~stop_wake_listener
    /\ enabled' = ~enabled
    /\ UNCHANGED <<restVars, processing, in_conversation, response_age, stop_wake_listener,
                   mic_lock, wake_pc, hotkey_pc, threads>>

\* Simon._on_quit: the stop flag is set and the hotkey is unhooked
OnQuit ==
    /\ ~stop_wake_listener
    /\ stop_wake_listener' = TRUE
    /\ UNCHANGED <<restVars, processing, enabled, in_conversation, response_age, mic_lock,
                   wake_pc, hotkey_pc, threads>>

\* A daemon thread when the interpreter exits: it ends where it is
Killed(at) == IF at \in {"none", "exited", "idle"} THEN at ELSE "killed"

\* The stop ends popup.run (popup.quit, or the window or the keyboard ended
\* it), Simon.run returns after its finally, main returns and the process
\* exits: the wake-word listener, the hotkey callback and the command
\* threads are daemon threads, which end with the process, and the lock
\* one of them may hold is gone with it
ProcessExit ==
    /\ stop_wake_listener
    /\ mic_lock' = Unlocked
    /\ wake_pc' = Killed(wake_pc)
    /\ hotkey_pc' = Killed(hotkey_pc)
    /\ threads' = [t \in ThreadIds |-> [threads[t] EXCEPT !.pc = Killed(threads[t].pc)]]
    /\ UNCHANGED <<restVars, processing, enabled, in_conversation, response_age,
                   stop_wake_listener>>

MainNext ==
    \/ WakeLoopCheck
    \/ WakeConversationCheck
    \/ WakeAcquire
    \/ WakeBackoff
    \/ WakeListen
    \/ WakeRecognize
    \/ OnHotkey
    \/ \E caller \in {"wake", "hotkey"} : ActivateCheck(caller)
    \/ \E caller \in {"wake", "hotkey"} : ActivateSet(caller)
    \/ \E t \in ThreadIds : ThreadAcquire(t)
    \/ \E t \in ThreadIds : ThreadListen(t)
    \/ \E t \in ThreadIds : ThreadRecognize(t)
    \/ \E t \in ThreadIds : ThreadExecute(t)
    \/ \E t \in ThreadIds : ThreadFinally(t)
    \/ Tick
    \/ ToggleListening
    \/ OnQuit
    \/ ProcessExit

\* -------------------------------------------------------------------------
\* Calls of single functions: the argument is drawn by the initial state and
\* the call is one step
\* -------------------------------------------------------------------------
NoParse == [op |-> "none", reply |-> Reply(<<>>, NONE, NONE, NONE)]

NoParseRet == [raised |-> FALSE, action |-> NoAction]

ParseIdle ==
    /\ parse_call = NoParse
    /\ parse_ret = NoParseRet

\* The contents of at most n pieces
ReplyContents(n) == UNION {[1..k -> Pieces] : k \in 0..n}

HasObject(content) == \E i \in 1..Len(content) : content[i] \in {"{}", "{"}

\* The replies given to _parse_response; the fields only vary where the
\* content has the text of an object
ParsedReplies(n) ==
    { Reply(c, k, t, r) :
        c \in {x \in ReplyContents(n) : HasObject(x)},
        k \in Optional({PyStr(<<"open_app">>)}),
        t \in Optional({PyStr(<<"chrome">>)}),
        r \in Optional({PyStr(<<"Opening Chrome">>)}) }
    \cup
    { Reply(c, NONE, NONE, NONE) : c \in {x \in ReplyContents(n) : ~HasObject(x)} }

ParseInit ==
    /\ parse_call \in {[op |-> "none", reply |-> r] : r \in ParsedReplies(MaxReplyPieces)}
    /\ parse_ret = NoParseRet

\* A call of Brain._parse_response(content)
ParseResponse ==
    /\ parse_call.op = "none"
    /\ parse_call' = [parse_call EXCEPT !.op = "parse"]
    /\ parse_ret' = parse_response(parse_call.reply)
    /\ UNCHANGED <<exec_call, exec_ret, dur_call, dur_ret, kn_log, lisVars,
                   regVars, memVars, skillVars, cmdVars, mainVars>>

NoExec == [op |-> "none", kind |-> PyNone, target |-> PyNone, os_ok |-> TRUE]

NoExecRet == [handler |-> "", result |-> "none"]

ExecIdle ==
    /\ exec_call = NoExec
    /\ exec_ret = NoExecRet

\* The kinds and targets given to Executor.execute: the kinds of the table,
\* a kind that is not in it, the empty text, None, a number, a list; as
\* targets None, texts, a number, lists
ExecKinds ==
    {PyStr(<<k>>) : k \in HandlerKinds \cup {"dance"}}
    \cup {PyStr(<<>>), PyNone, PyInt(<<"5">>), PyList}

ExecTargets ==
    { PyNone, PyStr(<<>>), PyStr(<<"chrome">>), PyStr(<<"5">>), PyInt(<<"50">>), PyList,
      [type |-> "list", text |-> <<"chrome">>] }

ExecInit ==
    /\ exec_call \in [op : {"none"}, kind : ExecKinds, target : ExecTargets, os_ok : BOOLEAN]
    /\ exec_ret = NoExecRet

\* A call of Executor.execute(action, target)
Execute ==
    /\ exec_call.op = "none"
    /\ exec_call' = [exec_call EXCEPT !.op = "execute"]
    /\ exec_ret' =
           [handler |-> IF exec_call.kind.type = "list" THEN ""
                        ELSE ExecutorHandler(exec_call.kind),
            result |-> ExecutorExecute(exec_call.kind, exec_call.target, exec_call.os_ok)]
    /\ UNCHANGED <<parse_call, parse_ret, dur_call, dur_ret, kn_log, lisVars,
                   regVars, memVars, skillVars, cmdVars, mainVars>>

NoDur == [op |-> "none", command |-> <<>>]

DurIdle ==
    /\ dur_call = NoDur
    /\ dur_ret = NONE

\* The commands given to _parse_duration
DurationWords == {"1", "5", "30", "hour", "minutes", "mins", "seconds", "timer"}

DurationCommands(n) == UNION {[1..k -> DurationWords] : k \in 0..n}

DurInit ==
    /\ dur_call \in [op : {"none"}, command : DurationCommands(MaxDurationWords)]
    /\ dur_ret = NONE

\* A call of TimerSkill._parse_duration(command)
ParseDuration ==
    /\ dur_call.op = "none"
    /\ dur_call' = [dur_call EXCEPT !.op = "parse"]
    /\ dur_ret' = parse_duration(dur_call.command)
    /\ UNCHANGED <<parse_call, parse_ret, exec_call, exec_ret, kn_log, lisVars,
                   regVars, memVars, skillVars, cmdVars, mainVars>>

\* No command has been given to the knowledge skill
KnIdle == kn_log = <<>>

\* Listener.__init__
LisIdle ==
    /\ lis_running = FALSE
    /\ lis_thread = NONE
    /\ lis_loops = <<>>
    /\ lis_calls = 0
    /\ lis_caller = "idle"

\* The utterances given to the timer skill: with a duration, with a
\* message, and without a duration
TimerCommands ==
    { <<"timer", "5", "minutes">>, <<"timer", "1", "seconds">>,
      <<"timer", "30", "seconds", "to", "go">>, <<"remind", "me", "in", "1", "hour">>,
      <<"timer">> }

\* TimerSkill.execute(command) for a command that can_handle takes
TimerCommand ==
    \E command \in TimerCommands :
        LET out == TimerExecute(command, facts, disk_facts, active_timers) IN
        /\ Len(active_timers) < MaxTimers
        /\ TimerCanHandle(command)
        /\ active_timers' = out.active_timers
        /\ UNCHANGED <<mainVars, fnVars, regVars, memVars, cmdVars, facts, disk_facts>>

\* The keys and the values of the facts spoken of: a key that is part of
\* another key, and a key that is part of neither
FactKeys == {<<"color">>, <<"favorite", "color">>, <<"name">>}

FactValues == {<<"red">>, <<"blue">>}

\* The utterances given to the knowledge skill
KnowledgeCommands ==
    {<<"remember", "my">> \o k \o <<"is">> \o v : k \in FactKeys \ {<<"name">>}, v \in FactValues}
    \cup {<<"what", "is", "my">> \o k : k \in FactKeys}
    \cup {<<"forget", "my">> \o k : k \in FactKeys}

\* data/knowledge.json as earlier runs have left it: no file, or a file of
\* facts in the order in which they were remembered
KnowledgeFiles ==
    { NONE,
      Some(<<[key |-> <<"color">>, val |-> <<"red">>]>>),
      Some(<<[key |-> <<"color">>, val |-> <<"red">>],
             [key |-> <<"favorite", "color">>, val |-> <<"blue">>]>>),
      Some(<<[key |-> <<"favorite", "color">>, val |-> <<"blue">>],
             [key |-> <<"color">>, val |-> <<"red">>]>>) }

\* KnowledgeSkill.__init__ with _load
KnInit ==
    /\ disk_facts \in KnowledgeFiles
    /\ facts = IF disk_facts = NONE THEN <<>> ELSE ValueOf(disk_facts)
    /\ active_timers = <<>>
    /\ kn_log = <<>>

\* KnowledgeSkill.execute(command) for a command that can_handle takes
KnowledgeCommand ==
    \E command \in KnowledgeCommands, save_ok \in BOOLEAN :
        LET out == KnowledgeExecute(command, facts, disk_facts, active_timers, save_ok) IN
        /\ Len(kn_log) < MaxKnowledgeCommands
        /\ KnowledgeCanHandle(command)
        /\ facts' = out.facts
        /\ disk_facts' = out.disk_facts
        /\ kn_log' = Append(kn_log, [command |-> command,
                                     response |-> IF out.raised THEN PyNone
                                                  ELSE out.action.response,
                                     before |-> facts])
        /\ UNCHANGED <<active_timers, parse_call, parse_ret, exec_call, exec_ret, dur_call,
                       dur_ret, lisVars, regVars, memVars, cmdVars, mainVars>>

\* What Listener leaves alone
lisRest ==
    <<parse_call, parse_ret, exec_call, exec_ret, dur_call, dur_ret, kn_log,
      regVars, memVars, skillVars, cmdVars, mainVars>>

\* Listener.start(): nothing while _running is set; otherwise the flag is
\* set and a thread is made for _listen_loop, which begins at its while
ListenerStart ==
    /\ lis_caller = "idle"
    /\ lis_calls < MaxListenerCalls
    /\ lis_calls' = lis_calls + 1
    /\ IF lis_running
       THEN UNCHANGED <<lis_running, lis_thread, lis_loops>>
       ELSE /\ lis_running' = TRUE
            /\ lis_loops' = Append(lis_loops, "while")
            /\ lis_thread' = Some(Len(lis_loops) + 1)
    /\ UNCHANGED <<lis_caller, lisRest>>

\* Listener.stop(), up to its join: the flag is cleared; without a thread
\* the call is over
ListenerStop ==
    /\ lis_caller = "idle"
    /\ lis_calls < MaxListenerCalls
    /\ lis_calls' = lis_calls + 1
    /\ lis_running' = FALSE
    /\ lis_caller' = IF lis_thread = NONE THEN "idle" ELSE "joining"
    /\ UNCHANGED <<lis_thread, lis_loops, lisRest>>

\* self._thread.join(timeout=2) returns: the thread has ended, or the two
\* seconds have passed while it is inside _listen_once (listen waits up to
\* 5 s for a phrase and up to 10 s for its end, and the recognition and the
\* callbacks follow)
JoinReturns(at) == at = "ended" \/ at = "listen_once"

\* The rest of Listener.stop(): the join returns and self._thread = None
ListenerStopJoined ==
    /\ lis_caller = "joining"
    /\ JoinReturns(lis_loops[ValueOf(lis_thread)])
    /\ lis_thread' = NONE
    /\ lis_caller' = "idle"
    /\ UNCHANGED <<lis_running, lis_loops, lis_calls, lisRest>>

\* _listen_loop: while self._running
ListenLoopTest ==
    \E i \in 1..Len(lis_loops) :
        /\ lis_loops[i] = "while"
        /\ lis_loops' = [lis_loops EXCEPT ![i] = IF lis_running THEN "listen_once" ELSE "ended"]
        /\ UNCHANGED <<lis_running, lis_thread, lis_calls, lis_caller, lisRest>>

\* _listen_loop, the body of the while: _listen_once and _process_text end,
\* by returning or by an exception that is handled, and the loop goes on;
\* or on_error raises inside the handler and the thread ends
ListenLoopBody ==
    \E i \in 1..Len(lis_loops), goes_on \in BOOLEAN :
        /\ lis_loops[i] = "listen_once"
        /\ lis_loops' = [lis_loops EXCEPT ![i] = IF goes_on THEN "while" ELSE "ended"]
        /\ UNCHANGED <<lis_running, lis_thread, lis_calls, lis_caller, lisRest>>

FnIdle == ParseIdle /\ ExecIdle /\ DurIdle /\ KnIdle /\ LisIdle

\* -------------------------------------------------------------------------
\* Specifications.  Each one starts the component it is about and leaves
\* the other components as they are constructed.
\* -------------------------------------------------------------------------
RegIdle ==
    /\ disk_commands = NONE
    /\ commands = LoadCommands(disk_commands)
    /\ reg_call = NoCall
    /\ reg_writes = <<>>
    /\ reg_args = NoArgs
    /\ reg_ret = NoRet

MemIdle ==
    /\ max_messages = BrainMaxMessages
    /\ messages = <<>>
    /\ mem_call = NoMemCall

RegNext == GetCommand

RegistryInit == RegInit /\ MemIdle /\ SkillIdle /\ CmdInit /\ MainInit /\ FnIdle

SpecRegistry == RegistryInit /\ [][RegNext]_vars

MemoryInit == MemInit /\ RegIdle /\ SkillIdle /\ CmdInit /\ MainInit /\ FnIdle

SpecMemory == MemoryInit /\ [][MemNext]_vars

PipelineInit == CmdRegInit /\ MemIdle /\ SkillInit /\ CmdInit /\ MainInit /\ FnIdle

SpecCmd == PipelineInit /\ [][CmdNext]_vars

SimonInit == MainInit /\ RegIdle /\ MemIdle /\ SkillIdle /\ CmdInit /\ FnIdle

SpecMain == SimonInit /\ [][MainNext]_vars

ResponseInit ==
    ParseInit /\ ExecIdle /\ DurIdle /\ KnIdle /\ LisIdle /\ RegIdle /\ MemIdle /\ SkillIdle /\ CmdInit /\ MainInit

ParseNext == ParseResponse

RegistryEditInit == EditInit /\ MemIdle /\ SkillIdle /\ CmdInit /\ MainInit /\ FnIdle

EditNext == AddCommand \/ RemoveCommand

SpecEdit == RegistryEditInit /\ [][EditNext]_vars

ExecutorInit ==
    ExecInit /\ ParseIdle /\ DurIdle /\ KnIdle /\ LisIdle /\ RegIdle /\ MemIdle /\ SkillIdle /\ CmdInit /\ MainInit

ExecNext == Execute

SpecExec == ExecutorInit /\ [][ExecNext]_vars

DurationInit ==
    DurInit /\ ParseIdle /\ ExecIdle /\ KnIdle /\ LisIdle /\ RegIdle /\ MemIdle /\ SkillIdle /\ CmdInit /\ MainInit

DurNext == ParseDuration

SpecDuration == DurationInit /\ [][DurNext]_vars

\* A history that earlier commands left: user and assistant turns in turn
History(len) ==
    [i \in 1..len |-> [role |-> IF i % 2 = 1 THEN "user" ELSE "assistant",
                       content |-> PyStr(<<IF i % 3 = 0 THEN "ok" ELSE "hi">>)]]

\* Short histories, and histories up to n turns below the maximum
Histories(n) ==
    {History(len) : len \in (0..n) \cup ((BrainMaxMessages - n)..BrainMaxMessages)}

\* CustomCommands.__init__: no file, or a file with one command
RequestRegInit ==
    /\ disk_commands \in {NONE, Some(<<[key |-> <<"go">>,
                                         val |-> <<SubAction("volume_up", PyNone)>>]>>)}
    /\ commands = LoadCommands(disk_commands)
    /\ reg_call = NoCall
    /\ reg_writes = <<>>
    /\ reg_args = NoArgs
    /\ reg_ret = NoRet

\* The Brain with the history of earlier commands
HistoryInit ==
    /\ max_messages = BrainMaxMessages
    /\ messages \in Histories(MaxHistory)
    /\ mem_call = NoMemCall

RequestInit == HistoryInit /\ RequestRegInit /\ SkillInit /\ CmdInit /\ MainInit /\ FnIdle

RequestNext == StartCommand \/ BrainProcessResolved \/ BrainProcessLLM

SpecRequest == RequestInit /\ [][RequestNext]_vars

\* The threads of Simon are scheduled: a thread that can take its next step
\* takes it, and a command thread that waits for the microphone lock gets
\* it, the lock being free again and again for the time between two
\* iterations of the wake-word listener
MainFairness ==
    /\ WF_vars(WakeListen)
    /\ \A t \in ThreadIds :
           /\ SF_vars(ThreadAcquire(t))
           /\ WF_vars(ThreadListen(t))
           /\ WF_vars(ThreadRecognize(t))
           /\ WF_vars(ThreadExecute(t))
           /\ WF_vars(ThreadFinally(t))

SpecMainFair == SimonInit /\ [][MainNext]_vars /\ MainFairness

LookupNext == AddCommand \/ RemoveCommand \/ GetCommand

\* The registry edited and looked up in the same run
SpecLookup == RegistryEditInit /\ [][LookupNext]_vars

ListenerInit ==
    LisIdle /\ ParseIdle /\ ExecIdle /\ DurIdle /\ KnIdle /\ RegIdle /\ MemIdle /\ SkillIdle
    /\ CmdInit /\ MainInit

ListenerNext ==
    ListenerStart \/ ListenerStop \/ ListenerStopJoined \/ ListenLoopTest \/ ListenLoopBody

SpecListener == ListenerInit /\ [][ListenerNext]_vars

TimerInit == SkillIdle /\ FnIdle /\ RegIdle /\ MemIdle /\ CmdInit /\ MainInit

TimerNext == TimerCommand \/ TimerSleepEnds \/ TimerFire

\* Every timer has a thread of its own, which the scheduler lets run: its
\* sleep ends, and what follows the sleep is executed
SpecTimer ==
    TimerInit /\ [][TimerNext]_vars /\ WF_vars(TimerSleepEnds) /\ WF_vars(TimerFire)

KnowledgeInit ==
    KnInit /\ ParseIdle /\ ExecIdle /\ DurIdle /\ LisIdle /\ RegIdle /\ MemIdle /\ CmdInit /\ MainInit

KnowledgeNext == KnowledgeCommand

SpecKnowledge == KnowledgeInit /\ [][KnowledgeNext]_vars

SpecParse == ResponseInit /\ [][ParseNext]_vars

\* -------------------------------------------------------------------------
\* C4
\* -------------------------------------------------------------------------
\* The entries of the mapping whose name is contained in text p, and those
\* whose name is p
ContainedIn(p) == {i \in 1..Len(commands) : Contains(commands[i].key, p)}

EqualTo(p) == {i \in 1..Len(commands) : commands[i].key = p}

\* What the claim says get_command returned, with p the text the names are
\* compared with
LookupAsClaimed(p) ==
    /\ EqualTo(p) # {} => reg_ret.opt = Some(commands[Least(EqualTo(p))].val)
    /\ (EqualTo(p) = {} /\ ContainedIn(p) # {}) =>
           reg_ret.opt = Some(commands[Least(ContainedIn(p))].val)
    /\ reg_ret.opt = NONE => (EqualTo(p) = {} /\ ContainedIn(p) = {})

\* C4 as stated: get_command returns the actions of the name equal to the
\* phrase, else of the first-registered name contained in the phrase, and
\* none only when no name equals or is contained in the phrase.
C4_Original == reg_call.op = "get" => LookupAsClaimed(reg_call.phrase)

\* C4 as amended: the same, with the names compared with the lower-cased,
\* trimmed phrase instead of the phrase as given.
C4_LookupOfNormalisedPhrase ==
    reg_call.op = "get" => LookupAsClaimed(Strip(Lower(reg_call.phrase)))

\* A lookup whose phrase is changed by the normalisation, with no name equal
\* to the normalised phrase and two names of different actions contained in
\* it: the first-registered one is returned.
C4_Witness ==
    /\ reg_call.op = "get"
    /\ Strip(Lower(reg_call.phrase)) # reg_call.phrase
    /\ EqualTo(Strip(Lower(reg_call.phrase))) = {}
    /\ Cardinality(ContainedIn(Strip(Lower(reg_call.phrase)))) >= 2
    /\ \E i, j \in ContainedIn(Strip(Lower(reg_call.phrase))) :
           /\ i < j
           /\ commands[i].val # commands[j].val
           /\ reg_ret.opt = Some(commands[i].val)

\* -------------------------------------------------------------------------
\* C6
\* -------------------------------------------------------------------------
\* The newest n entries of s, in their order
NewestN(s, n) == IF Len(s) <= n THEN s ELSE SubSeq(s, Len(s) - n + 1, Len(s))

\* C6 as stated: after every Memory call the number of stored turns is at
\* most max_messages, and an append leaves exactly the newest max_messages
\* turns of the old sequence followed by the new turn, none of them edited.
C6_Original ==
    [][ /\ Len(messages') <= max_messages'
        /\ mem_call'.op = "add" =>
               messages' = NewestN(Append(messages, [role |-> mem_call'.role,
                                                     content |-> mem_call'.content]),
                                   max_messages)
        /\ mem_call'.op = "clear" => messages' = <<>> ]_vars

\* -------------------------------------------------------------------------
\* C3, C5, C7, C8, C9, C10: one command through Brain.process and
\* _execute_command
\* -------------------------------------------------------------------------
\* Brain.process has returned or raised, and nothing has been executed yet
ProcessJustEnded ==
    /\ pc \in {"execute", "except"}
    /\ exec_log = <<>>
    /\ sub_index = 0

\* The skills that can handle the command, by their place in the
\* registration order
Handlers == {i \in 1..Len(SkillOrder) : CanHandle(SkillOrder[i], Lower(current_command))}

\* C3 as stated: when the registry lookup matches, the result is the custom
\* action with the command's list and neither the skills nor the LLM are
\* consulted; otherwise, when a skill can handle the utterance, that skill
\* runs and the LLM is not called; the LLM is called only when neither
\* matched.
C3_Original ==
    ProcessJustEnded =>
        LET found == get_command(commands, current_command) IN
        /\ found # NONE =>
               /\ IsCustom(current_action)
               /\ current_action.sub = ValueOf(found)
               /\ consulted = {"registry"}
        /\ (found = NONE /\ Handlers # {}) =>
               /\ skill_run # <<>>
               /\ "llm" \notin consulted
        /\ "llm" \in consulted => (found = NONE /\ Handlers = {})

\* C5: whenever the dispatcher is consulted, the one skill whose execute
\* runs is the first in registration order (weather, timer, knowledge,
\* files) whose can_handle is true, no later skill runs, and no skill runs
\* only when no skill's can_handle is true.
C5_FirstRegisteredSkillRuns ==
    (pc \notin {"idle", "brain"} /\ "skills" \in consulted) =>
        IF Handlers = {}
        THEN skill_run = <<>> /\ "llm" \in consulted
        ELSE skill_run = <<SkillOrder[Least(Handlers)]>>

\* A command that the timer skill and the later-registered knowledge skill
\* can both handle has been dispatched, and the timer skill alone ran.
C5_Witness ==
    /\ pc = "done"
    /\ TimerCanHandle(Lower(current_command))
    /\ KnowledgeCanHandle(Lower(current_command))
    /\ ~WeatherCanHandle(Lower(current_command))
    /\ skill_run = <<"timer">>

\* The thread is past _execute_command, which had the list of a registered
\* command to execute
CustomCommandEnded ==
    /\ pc \in {"finally", "done"}
    /\ IsCustom(current_action)
    /\ current_action.target = PyList

\* C7 as stated: for a custom action the executor is called once for every
\* sub-action, in list order, whatever the earlier ones did, and the one
\* thing spoken is the action's own response.
C7_Original ==
    CustomCommandEnded =>
        /\ Len(exec_log) = Len(current_action.sub)
        /\ \A i \in 1..Len(current_action.sub) :
               /\ exec_log[i].action = current_action.sub[i].action
               /\ exec_log[i].target = current_action.sub[i].target
        /\ spoken = <<current_action.response>>

\* C8 as stated: every command ends with exactly one call of speaker.speak
\* and no exception leaves the command thread.
C8_Original == pc = "done" => (Len(spoken) = 1 /\ ~unhandled)

\* C9 as stated: a skill that took the utterance never raises past the
\* dispatcher, which returns a speak-only Action.
C9_Original ==
    (ProcessJustEnded /\ skill_run # <<>>) =>
        /\ ~brain_raised
        /\ current_action.action = PyStr(<<"speak">>)

\* C10 as stated: every Action that Brain.process returns has a response
\* that is a text and is not empty.
C10_Original ==
    (ProcessJustEnded /\ ~brain_raised) =>
        /\ current_action.response.type = "str"
        /\ current_action.response.text # <<>>

\* -------------------------------------------------------------------------
\* C1, C2: the threads of Simon
\* -------------------------------------------------------------------------
\* The command threads that have started and not ended, and those with
\* _execute_command (the classification request) in progress
LiveThreads == {t \in ThreadIds : threads[t] # NoThread}

Classifying == {t \in ThreadIds : threads[t].pc = "execute"}

\* C1 as stated: at most one command thread is alive and at most one
\* classification request is in progress at any time.
C1_Original ==
    /\ Cardinality(LiveThreads) <= 1
    /\ Cardinality(Classifying) <= 1

\* The command threads inside their recognizer.listen section
ThreadsListening == {t \in ThreadIds : threads[t].pc = "listen"}

\* C2: the wake-word listener and the command threads are never inside
\* their recognizer.listen sections together; whoever is inside holds
\* _mic_lock, and the lock is free when nobody is inside.
C2_MicrophoneExclusive ==
    /\ ~(wake_pc = "listen" /\ ThreadsListening # {})
    /\ Cardinality(ThreadsListening) <= 1
    /\ wake_pc = "listen" => mic_lock = HeldByWake
    /\ \A t \in ThreadsListening : mic_lock = HeldByThread(t)
    /\ (wake_pc # "listen" /\ ThreadsListening = {}) => mic_lock = Unlocked

\* A command thread is reading the microphone and the wake-word listener,
\* past its checks, has found the lock taken and skips its turn.
C2_Witness ==
    /\ wake_pc = "backoff"
    /\ ThreadsListening # {}

\* ---- Brain._parse_response
\* The object a reply is all of, bare or in a fenced block with or without
\* a language tag; "invalid" when the reply is nothing of the kind
FencedBody(s) ==
    IF Len(s) >= 2 /\ s[1] = "fence" /\ s[Len(s)] = "fence"
    THEN LET inner == SubSeq(s, 2, Len(s) - 1)
         IN  {StripWs(inner)} \cup
             {StripWs(Tail(inner)) : x \in {t \in {"json", "py"} : inner # <<>> /\ Head(inner) = t}}
    ELSE {}

ObjectsOf(reply) ==
    { d \in { JsonLoads(b, reply) :
                b \in {StripWs(reply.content)} \cup FencedBody(StripWs(reply.content)) } :
        d.kind = "object" }

\* C11: a reply that is a JSON object with the three fields, bare or in a
\* fenced block with or without a language tag, is returned as the Action of
\* the object's action, target and response.
C11_Original ==
    parse_call.op = "parse" =>
        \A d \in ObjectsOf(parse_call.reply) :
            (d.action # NONE /\ d.target # NONE /\ d.response # NONE) =>
                /\ ~parse_ret.raised
                /\ parse_ret.action =
                       MakeAction(ValueOf(d.action), ValueOf(d.target), <<>>,
                                  ValueOf(d.response))

\* C12: a reply that is no JSON, a fenced block whose content is no JSON
\* included, is returned as a speak action with no target whose response is
\* the stripped reply, or the fallback sentence when nothing is left of it;
\* nothing is raised.
C12_Original ==
    (/\ parse_call.op = "parse"
     /\ JsonLoads(StripWs(parse_call.reply.content), parse_call.reply).kind = "invalid"
     /\ JsonLoads(StripWs(Unfence(parse_call.reply.content)), parse_call.reply).kind
            = "invalid")
    => /\ ~parse_ret.raised
       /\ parse_ret.action =
              Speak(IF StripWs(parse_call.reply.content) # <<>>
                    THEN StripWs(parse_call.reply.content)
                    ELSE <<"I didn't understand that.">>)

\* ---- Brain.process and the LLM
LLMFailures == {"ResponseError", "Exception"}

Diagnostics == {<<"Sorry, Ollama error: {e}">>, <<"Sorry, something went wrong: {e}">>}

\* Brain.process has just returned to _execute_command
ProcessReturned == pc = "execute" /\ sub_index = 0 /\ exec_log = <<>>

\* C13: when the call of the LLM raises, Brain.process does not raise: it
\* returns a speak action with no target whose response is the sentence
\* that carries the exception's text.
C13_FailureIsSpoken ==
    (llm_result \in LLMFailures /\ pc # "brain") =>
        /\ ~brain_raised
        /\ ~unhandled
        /\ current_action.action = PyStr(<<"speak">>)
        /\ current_action.target = PyNone
        /\ current_action.response \in {PyStr(d) : d \in Diagnostics}

C13_Witness ==
    /\ ProcessReturned
    /\ llm_result = "Exception"
    /\ current_action = Speak(<<"Sorry, something went wrong: {e}">>)

\* C14: the history changes only once the LLM has answered: an answered call
\* appends the utterance and then the response, a call that raised leaves
\* the history as it was before the command.
C14_Original ==
    [][(pc = "brain" /\ llm_result' # "none") =>
           IF llm_result' = "ok"
           THEN messages' =
                    messages \o <<[role |-> "user", content |-> PyStr(current_command)],
                                  [role |-> "assistant", content |-> current_action'.response]>>
           ELSE messages' = messages]_vars

\* ---- add_command, remove_command
Edits == {"add", "remove"}

WriteFailed == \E i \in 1..Len(reg_writes) : reg_writes[i].outcome # "ok"

\* C15: add_command and remove_command never raise; a call that returns
\* true has written the whole mapping to the file, and a call whose write
\* failed returns false.
C15_EditsReportTheWrite ==
    reg_call.op \in Edits =>
        /\ reg_args.ended \in {"True", "False"}
        /\ reg_args.ended = "True" =>
               /\ reg_writes = <<[given |-> commands, outcome |-> "ok"]>>
               /\ disk_commands = Some(commands)
        /\ commands # reg_args.commands_before => reg_writes # <<>>
        /\ WriteFailed => reg_args.ended = "False"

C15_Witness ==
    /\ reg_call.op = "add"
    /\ WriteFailed
    /\ reg_args.ended = "False"
    /\ reg_args.n = 2
    /\ reg_args.disk_before = Some(reg_args.commands_before)
    /\ reg_args.commands_before # <<>>

\* C16: when the write of add_command or remove_command fails, the mapping
\* in memory keeps the change, the file keeps what it held before, and the
\* write is not tried again.
C16_Original ==
    (reg_call.op \in Edits /\ WriteFailed) =>
        /\ commands =
               IF reg_call.op = "add"
               THEN DictSet(reg_args.commands_before, Lower(reg_args.name.text),
                            reg_args.actions)
               ELSE DictDel(reg_args.commands_before, Lower(reg_args.name.text))
        /\ disk_commands = reg_args.disk_before
        /\ Len(reg_writes) = 1

\* ---- Executor.execute
InTable(kind) ==
    kind.type = "str" /\ Len(kind.text) = 1 /\ kind.text[1] \in HandlerKinds

\* C17: execute with a kind that is not in the handler table returns false
\* and invokes no handler.
C17_Original ==
    (exec_call.op = "execute" /\ ~InTable(exec_call.kind)) =>
        exec_ret = [handler |-> "", result |-> "False"]

\* C18: execute returns a boolean and never raises, for every kind of the
\* table and every target.
C18_Original ==
    (exec_call.op = "execute" /\ InTable(exec_call.kind)) =>
        exec_ret.result \in {"True", "False"}

\* ---- Simon._execute_command
Apology == PyStr(<<"Sorry, I couldn't do that">>)

\* _execute_command has got an Action that is no custom action, and the
\* command thread is past it
SingleActionDone ==
    /\ pc \in {"finally", "done"}
    /\ ~brain_raised
    /\ current_action # NoAction
    /\ ~IsCustom(current_action)

UnitSeconds(w) ==
    CASE w \in {"hour", "hours"} -> 3600
      [] w \in {"minute", "minutes", "min", "mins"} -> 60
      [] w \in {"second", "seconds", "sec", "secs"} -> 1
      [] OTHER -> 0

\* The sum of amount * unit over the duration expressions of the command,
\* from word i on, each one counted once
RECURSIVE StatedSeconds(_, _)
StatedSeconds(command, i) ==
    IF i >= Len(command) THEN 0
    ELSE (IF command[i] \in NumberWords
          THEN IntOf(command[i]) * UnitSeconds(command[i + 1]) ELSE 0)
         + StatedSeconds(command, i + 1)

\* C20: _parse_duration returns the seconds the command states, every
\* amount counted once ("5 minutes" is 300, "1 hour 30 minutes" is 5400),
\* and None for a command without a duration.
C20_Original ==
    dur_call.op = "parse" =>
        dur_ret = IF StatedSeconds(dur_call.command, 1) > 0
                  THEN Some(StatedSeconds(dur_call.command, 1))
                  ELSE NONE

\* -------------------------------------------------------------------------
\* C21
\* -------------------------------------------------------------------------
RememberCommand(k, v) == <<"remember", "my">> \o k \o <<"is">> \o v

RecallCommand(k) == <<"what", "is", "my">> \o k

\* C21: whatever facts were stored before, when 'remember my k is v' has
\* been answered and 'what is my k' follows it, the answer to the question
\* contains v.
C21_Original ==
    \A i \in 1..(Len(kn_log) - 1), k \in FactKeys, v \in FactValues :
        ( /\ kn_log[i].command = RememberCommand(k, v)
          /\ kn_log[i].response # PyNone
          /\ kn_log[i + 1].command = RecallCommand(k) )
        => /\ kn_log[i + 1].response.type = "str"
           /\ Contains(v, kn_log[i + 1].response.text)

\* -------------------------------------------------------------------------
\* C29
\* -------------------------------------------------------------------------
ForgetCommand(k) == <<"forget", "my">> \o k

\* The knowledge skill has just been given the command
JustGiven(command) ==
    /\ Len(kn_log') = Len(kn_log) + 1
    /\ kn_log'[Len(kn_log')].command = command

\* C29: 'forget my k' deletes the entry of k and leaves every other fact as
\* it was; when no fact is stored under k, nothing is deleted.
C29_Original ==
    [][\A k \in FactKeys :
           JustGiven(ForgetCommand(k)) =>
               facts' = IF DictHas(facts, k) THEN DictDel(facts, k) ELSE facts]_vars

\* -------------------------------------------------------------------------
\* C22
\* -------------------------------------------------------------------------
\* The turns stored before the command that are still stored once the
\* command has been recorded: all of them while the history has room, and
\* otherwise the most recent ones, one fewer than the maximum
PriorTurns ==
    IF Len(messages) < max_messages THEN messages
    ELSE SubSeq(messages, Len(messages) - max_messages + 2, Len(messages))

\* client.chat is called in this step
LLMCalled == pc = "brain" /\ llm_result' # "none"

\* C22: the request given to the LLM is the system instruction, then the
\* prior turns that are stored, oldest first and without the turn just
\* recorded, then one user message that contains the utterance; the turn of
\* the utterance is in it once, whatever the length of the history.
C22_RequestShape ==
    [][LLMCalled =>
           LET n == Len(llm_request') IN
           /\ n = Len(PriorTurns) + 2
           /\ llm_request'[1] = SystemMessage
           /\ \A i \in 1..Len(PriorTurns) :
                  llm_request'[i + 1] = [role |-> PriorTurns[i].role,
                                         content |-> PriorTurns[i].content]
           /\ llm_request'[n].role = "user"
           /\ Contains(current_command, llm_request'[n].content.text)]_vars

\* A request has been made on a full history
C22_Witness ==
    /\ pc = "execute"
    /\ llm_result # "none"
    /\ Len(llm_request) = BrainMaxMessages + 1
    /\ Len(messages) = BrainMaxMessages

\* -------------------------------------------------------------------------
\* C26
\* -------------------------------------------------------------------------
\* Brain.process ends in this step without having gone to the LLM
ResolvedWithoutLLM == pc = "brain" /\ pc' # "brain" /\ "llm" \notin consulted'

\* C26: when the registry or a skill resolves the utterance, the history is
\* after Brain.process what it was before, and no request goes to the LLM.
C26_ResolvedLeavesHistory ==
    [][ResolvedWithoutLLM =>
           /\ messages' = messages
           /\ llm_result' = "none"
           /\ llm_request' = <<>>]_vars

\* A skill has resolved an utterance while turns were stored
C26_Witness ==
    /\ pc = "execute"
    /\ consulted = {"registry", "skills"}
    /\ skill_run # <<>>
    /\ messages # <<>>
    /\ llm_result = "none"

\* The registry has resolved an utterance while turns were stored
C26_RegistryWitness ==
    /\ pc = "execute"
    /\ consulted = {"registry"}
    /\ messages # <<>>
    /\ llm_result = "none"

\* -------------------------------------------------------------------------
\* C23
\* -------------------------------------------------------------------------
\* A timer whose sleep has not ended is active, and no timer has fired more
\* than once: it is active exactly as long as it has not fired
TimersWellFormed ==
    \A i \in 1..Len(active_timers) :
        LET t == active_timers[i] IN
        /\ t.thread = "sleeping" => t.active
        /\ t.fired \in {0, 1}
        /\ t.active <=> t.fired = 0

\* A timer is created active; it becomes inactive only by firing, which its
\* thread does after the sleep; an inactive timer stays inactive and does
\* not fire again
TimerSteps ==
    \A i \in 1..Len(active_timers') :
        IF i > Len(active_timers)
        THEN active_timers'[i].active /\ active_timers'[i].fired = 0
        ELSE LET t == active_timers[i]
                 u == active_timers'[i]
             IN  /\ ~t.active => (~u.active /\ u.fired = t.fired)
                 /\ (t.active /\ ~u.active) => (t.thread = "woken" /\ u.fired = t.fired + 1)
                 /\ u.fired # t.fired => ~u.active

\* C23: every timer is created active, stays active until its sleep has
\* ended, then fires once and is inactive for good; with its thread
\* scheduled fairly, every timer becomes inactive.
C23_TimerLife ==
    /\ []TimersWellFormed
    /\ [][TimerSteps]_vars
    /\ \A i \in 1..MaxTimers :
           [](Len(active_timers) >= i =>
                 <>(Len(active_timers) >= i /\ ~active_timers[i].active))

\* One timer has fired and is inactive while a later one still sleeps
C23_Witness ==
    /\ Len(active_timers) = 2
    /\ ~active_timers[1].active
    /\ active_timers[1].fired = 1
    /\ active_timers[1].thread = "done"
    /\ active_timers[2].active
    /\ active_timers[2].thread = "sleeping"

\* -------------------------------------------------------------------------
\* C24
\* -------------------------------------------------------------------------
\* The positions of a command thread from which it goes on to its end
ThreadAt == {"acquire", "listen", "recognize", "execute", "finally"}

\* C24: once the stop flag is set, the wake-word listener leaves its loop at
\* the next test of the flag and begins no further iteration, and a command
\* thread that is under way is not cut off: it goes on, step by step, to
\* the end of its target.
C24_Original ==
    [][stop_wake_listener =>
           /\ (wake_pc = "loop" /\ wake_pc' # "loop") => wake_pc' \in {"exited", "killed"}
           /\ \A t \in ThreadIds :
                  threads[t].pc \in ThreadAt => threads'[t].pc # "killed"]_vars

\* -------------------------------------------------------------------------
\* C28
\* -------------------------------------------------------------------------
\* C28: while voice activation is disabled, no step of the hotkey callback
\* or of the wake-word listener sets _processing or starts a command
\* thread, whenever the toggle came.
C28_Original ==
    [][~enabled =>
           /\ processing' => processing
           /\ \A t \in ThreadIds : threads[t] = NoThread => threads'[t] = NoThread]_vars

\* -------------------------------------------------------------------------
\* C25
\* -------------------------------------------------------------------------
\* The process has exited with a command thread under way
ProcessEnded == \E t \in ThreadIds : threads[t].pc = "killed"

\* A command thread ends in this step
ThreadEnds(t) == threads[t].pc \in ThreadAt /\ threads'[t] = NoThread

\* C25: every command thread leaves _processing false when it ends, however
\* it ended; with the threads scheduled fairly, the assistant, as long as
\* its process runs, does not stay in the processing state.
C25_GuardReleased ==
    /\ [][\A t \in ThreadIds : ThreadEnds(t) => ~processing']_vars
    /\ [](processing => <>(~processing \/ ProcessEnded))

\* A command thread has ended and a trigger is accepted again
C25_Witness ==
    /\ ~processing
    /\ in_conversation
    /\ response_age = 0
    /\ threads = [t \in ThreadIds |-> NoThread]
    /\ enabled
    /\ ~stop_wake_listener
    /\ hotkey_pc = "idle"

\* -------------------------------------------------------------------------
\* C27
\* -------------------------------------------------------------------------
\* get_command is called with the name of the edit that has just returned
\* true
LookupAfter(op) ==
    /\ reg_call.op = op
    /\ reg_args.ended = "True"
    /\ reg_call'.op = "get"
    /\ reg_call'.phrase = reg_args.name.text

\* The list that remove_command took out of the mapping
Removed == DictGet(reg_args.commands_before, Lower(reg_args.name.text))

\* C27: when add_command(name, actions) has returned true, get_command(name)
\* returns that list; when remove_command(name) has returned true,
\* get_command(name) does not return the list that was removed.
C27_Original ==
    [][/\ LookupAfter("add") => reg_ret' = OptRet(Some(reg_args.actions))
       /\ LookupAfter("remove") => reg_ret' # OptRet(Some(Removed))]_vars

\* -------------------------------------------------------------------------
\* C30
\* -------------------------------------------------------------------------
\* The threads that are running _listen_loop
RunningLoops == {i \in 1..Len(lis_loops) : lis_loops[i] # "ended"}

\* C30: whatever calls of start and stop have returned, at most one thread
\* runs the listen loop: a start while running starts nothing, and a loop
\* thread from before a stop does not run beside the thread of a later
\* start.
C30_Original == lis_caller = "idle" => Cardinality(RunningLoops) <= 1

====
